---- MODULE Spec2Model ----
(***************************************************************************)
(* A model of the Vela compiler front-end and lowering pipeline            *)
(* (MigMarGil/Vela_lang): Lexer (src/src/frontend/lexer.py), Parser        *)
(* (src/src/frontend/parser.py), TypeChecker (src/src/frontend/types.py),  *)
(* LLVMCompiler (src/src/backend/llvm_compiler.py) and the commands of     *)
(* VelaCLI (src/src/cli/vela_main.py).                                     *)
(*                                                                         *)
(* Each phase has its own specification; the variables of the other        *)
(* phases stay at their initial value.                                     *)
(*   SpecLex    the main loop of Lexer.tokenize, one action per branch     *)
(*   SpecParse  Parser.parse applied to bounded token lists                *)
(*   SpecExpr   Parser.parse_expression applied to operator chains         *)
(*   SpecPrimary Parser.parse_primary applied to bounded token lists       *)
(*   SpecProgress one parse_statement call or loop iteration at a time     *)
(*   SpecAssign TypeChecker.can_assign applied to pairs of types           *)
(*   SpecCheck  TypeChecker.check_program, one action per statement        *)
(*   SpecRecheck check_program run twice on the same TypeChecker           *)
(*   SpecLower  LLVMCompiler.compile_program after a clean type check      *)
(*   SpecRelower compile_program run twice on the same tree                *)
(*   SpecRun    VelaCLI.run_file and compile_file, phase by phase          *)
(***************************************************************************)
EXTENDS Integers, Sequences, FiniteSets, TLC

VARIABLES
    source,      \* Lexer.source, a sequence of one-character strings
    lex,         \* Lexer.pos / Lexer.line / Lexer.column
    tokens,      \* Lexer.tokens
    lexStatus,   \* "running", "returned" or "raised"
    lexError,    \* the exception tokenize raised, or NoError
    parser,      \* Parser.pos, and what parse() returned or raised
    assign,      \* a call of TypeChecker.can_assign and what it returned
    checker,     \* TypeChecker.env / TypeChecker.errors during check_program
    lowerer,     \* LLVMCompiler: the module built so far
    cli          \* VelaCLI.run_file / compile_file: the command and its return

lexVars == <<source, lex, tokens, lexStatus, lexError>>

\* What the phases after the lexer own.
afterLex == <<parser, assign, checker, lowerer, cli>>

\* What the phases after the parser own.
afterParse == <<assign, checker, lowerer, cli>>

vars == <<lexVars, parser, assign, checker, lowerer, cli>>

(***************************************************************************)
(* Bounds.                                                                 *)
(***************************************************************************)
MaxSrcLen == 3      \* characters of a source text
MaxTokens == 3      \* tokens before EOF of an arbitrary token list
MaxOps == 3         \* binary operators of an operator chain
MaxStatements == 2  \* top-level statements of a program to check
MaxNesting == 1     \* parentheses opened in an arbitrary token list

(***************************************************************************)
(* Helpers.                                                                *)
(***************************************************************************)
None == "None"

NoError == [kind |-> "none"]

\* No Parser has been constructed.
NoParser == [status |-> "none"]

\* No TypeChecker has been constructed, can_assign has not been called, no
\* LLVMCompiler has been constructed.
NoChecker == [status |-> "none"]
NoCall == [status |-> "none"]
NoLowerer == [status |-> "none"]

\* No command of the command line is running.
NoCli == [status |-> "none"]

AfterParseIdle ==
    assign = NoCall /\ checker = NoChecker /\ lowerer = NoLowerer /\ cli = NoCli

SeqsUpTo(S, n) == UNION {[1..k -> S] : k \in 0..n}

(***************************************************************************)
(*                               LEXER                                     *)
(***************************************************************************)
DQ == "\""
SQ == "'"
BS == "\\"
NL == "\n"
TAB == "\t"
CR == "\r"

\* The characters source texts are drawn from: one or more of every class
\* the lexer distinguishes (quote, backslash, letter, digit, dot, blank,
\* newline, comment, operator, unknown).
Alphabet == {DQ, SQ, BS, "a", "n", "1", ".", " ", NL, "#", "=", "@"}

Letters == {"a", "b", "c", "d", "e", "f", "g", "h", "i", "j", "k", "l", "m",
            "n", "o", "p", "q", "r", "s", "t", "u", "v", "w", "x", "y", "z"}
Digits == {"0", "1", "2", "3", "4", "5", "6", "7", "8", "9"}

isdigit(c) == c \in Digits
isalpha(c) == c \in Letters
isalnum(c) == isalpha(c) \/ isdigit(c)

\* Token(type, value, line, column).  `value` holds the text of a Python value
\* and `pytype` the type Python gives it: "int", "float", "str", "bool" or
\* "NoneType".
Token(type, value, pytype, line, column) ==
    [type |-> type, value |-> value, pytype |-> pytype,
     line |-> line, column |-> column]

\* Lexer.keywords
keywords ==
    ("func" :> "FUNC") @@
    ("return" :> "RETURN") @@
    ("if" :> "IF") @@
    ("else" :> "ELSE") @@
    ("while" :> "WHILE") @@
    ("for" :> "FOR") @@
    ("in" :> "IN") @@
    ("break" :> "BREAK") @@
    ("continue" :> "CONTINUE") @@
    ("int" :> "INT") @@
    ("float" :> "FLOAT") @@
    ("str" :> "STR") @@
    ("bool" :> "BOOL") @@
    ("void" :> "VOID") @@
    ("auto" :> "AUTO") @@
    ("true" :> "BOOLEAN") @@
    ("false" :> "BOOLEAN") @@
    ("null" :> "NULL") @@
    ("async" :> "ASYNC") @@
    ("await" :> "AWAIT") @@
    ("parallel" :> "PARALLEL") @@
    ("match" :> "MATCH") @@
    ("with" :> "WITH") @@
    ("import" :> "IMPORT") @@
    ("from" :> "FROM") @@
    ("as" :> "AS") @@
    ("class" :> "CLASS") @@
    ("trait" :> "TRAIT") @@
    ("impl" :> "IMPL") @@
    ("and" :> "AND") @@
    ("or" :> "OR") @@
    ("not" :> "NOT")

\* Lexer.current_char: None past the end of the source.
current_char(src, l) == IF l.pos >= Len(src) THEN None ELSE src[l.pos + 1]

\* Lexer.peek(offset = 1)
peek(src, l) == IF l.pos + 1 >= Len(src) THEN None ELSE src[l.pos + 2]

\* Lexer.advance
advance(src, l) ==
    IF l.pos < Len(src) /\ src[l.pos + 1] = NL
    THEN [pos |-> l.pos + 1, line |-> l.line + 1, column |-> 1]
    ELSE [pos |-> l.pos + 1, line |-> l.line, column |-> l.column + 1]

\* Lexer.skip_whitespace
RECURSIVE skip_whitespace(_, _)
skip_whitespace(src, l) ==
    IF current_char(src, l) # None /\ current_char(src, l) \in {" ", TAB, CR}
    THEN skip_whitespace(src, advance(src, l))
    ELSE l

\* Lexer.skip_comment (called with current_char = "#")
RECURSIVE skip_comment(_, _)
skip_comment(src, l) ==
    IF current_char(src, l) # None /\ current_char(src, l) # NL
    THEN skip_comment(src, advance(src, l))
    ELSE l

\* The loop of Lexer.read_number: <<position after the number, num_str, has_dot>>.
RECURSIVE read_number_loop(_, _, _, _)
read_number_loop(src, l, num_str, has_dot) ==
    LET c == current_char(src, l) IN
    IF c # None /\ (isdigit(c) \/ c = ".")
    THEN IF c = "." /\ has_dot
         THEN <<l, num_str, has_dot>>
         ELSE read_number_loop(src, advance(src, l), num_str \o c,
                               has_dot \/ c = ".")
    ELSE <<l, num_str, has_dot>>

\* Lexer.read_number: the new position and the NUMBER token (float(num_str)
\* when a dot was read, int(num_str) otherwise).
read_number(src, l) ==
    LET r == read_number_loop(src, l, "", FALSE) IN
    [l   |-> r[1],
     tok |-> Token("NUMBER", r[2], IF r[3] THEN "float" ELSE "int",
                   l.line, l.column),
     err |-> NoError]

\* The loop of Lexer.read_string.  An escape at the very end of the source
\* reads escape_char = None and `string_val += None` raises TypeError.
RECURSIVE read_string_loop(_, _, _, _)
read_string_loop(src, l, quote, string_val) ==
    LET c == current_char(src, l) IN
    IF c # None /\ c # quote
    THEN IF c = BS
         THEN LET l1 == advance(src, l)
                  escape_char == current_char(src, l1)
              IN  IF escape_char = None
                  THEN <<l1, string_val, "TypeError">>
                  ELSE read_string_loop(src, advance(src, l1), quote,
                           string_val \o
                               (CASE escape_char = "n" -> NL
                                  [] escape_char = "t" -> TAB
                                  [] escape_char = BS -> BS
                                  [] escape_char = quote -> quote
                                  [] OTHER -> escape_char))
         ELSE read_string_loop(src, advance(src, l), quote, string_val \o c)
    ELSE <<l, string_val, "none">>

\* Lexer.read_string: skips the opening quote, reads up to the closing quote
\* or the end of the source, then skips one more character unconditionally.
read_string(src, l, quote) ==
    LET r == read_string_loop(src, advance(src, l), quote, "") IN
    IF r[3] = "TypeError"
    THEN [l |-> r[1], tok |-> Token("STRING", r[2], "str", l.line, l.column),
          err |-> [kind |-> "TypeError"]]
    ELSE [l |-> advance(src, r[1]),
          tok |-> Token("STRING", r[2], "str", l.line, l.column),
          err |-> NoError]

\* The loop of Lexer.read_identifier.
RECURSIVE read_identifier_loop(_, _, _)
read_identifier_loop(src, l, id_str) ==
    LET c == current_char(src, l) IN
    IF c # None /\ (isalnum(c) \/ c = "_")
    THEN read_identifier_loop(src, advance(src, l), id_str \o c)
    ELSE <<l, id_str>>

\* read_identifier without the lookup in self.keywords
read_identifier_without_keywords(src, l) ==
    LET r == read_identifier_loop(src, l, "") IN
    [l |-> r[1], tok |-> Token("IDENTIFIER", r[2], "str", l.line, l.column),
     err |-> NoError]

\* Lexer.read_identifier
read_identifier(src, l) ==
    LET r == read_identifier_loop(src, l, "")
        id_str == r[2]
        token_type == IF id_str \in DOMAIN keywords THEN keywords[id_str]
                      ELSE "IDENTIFIER"
        value == CASE token_type = "BOOLEAN" ->
                        IF id_str = "true" THEN "True" ELSE "False"
                   [] token_type = "NULL" -> None
                   [] OTHER -> id_str
        pytype == CASE token_type = "BOOLEAN" -> "bool"
                    [] token_type = "NULL" -> "NoneType"
                    [] OTHER -> "str"
    IN  [l |-> r[1], tok |-> Token(token_type, value, pytype, l.line, l.column),
         err |-> NoError]

\* The operator section of Lexer.tokenize: the token type and its length for
\* the character `char` followed by `nxt`, or "UNKNOWN".
operator_at(char, nxt) ==
    CASE char = "=" /\ nxt = "=" -> <<"EQ", 2>>
      [] char = "!" /\ nxt = "=" -> <<"NEQ", 2>>
      [] char = "<" /\ nxt = "=" -> <<"LTE", 2>>
      [] char = ">" /\ nxt = "=" -> <<"GTE", 2>>
      [] char = "+" /\ nxt = "=" -> <<"PLUS_ASSIGN", 2>>
      [] char = "-" /\ nxt = "=" -> <<"MINUS_ASSIGN", 2>>
      [] char = "-" /\ nxt = ">" -> <<"ARROW", 2>>
      [] char = "=" /\ nxt = ">" -> <<"FAT_ARROW", 2>>
      [] char = "|" /\ nxt = ">" -> <<"PIPELINE", 2>>
      [] char = "*" /\ nxt = "*" -> <<"POWER", 2>>
      [] OTHER ->
         CASE char = "+" -> <<"PLUS", 1>>
           [] char = "-" -> <<"MINUS", 1>>
           [] char = "*" -> <<"MULTIPLY", 1>>
           [] char = "/" -> <<"DIVIDE", 1>>
           [] char = "%" -> <<"MODULO", 1>>
           [] char = "=" -> <<"ASSIGN", 1>>
           [] char = "<" -> <<"LT", 1>>
           [] char = ">" -> <<"GT", 1>>
           [] char = "(" -> <<"LPAREN", 1>>
           [] char = ")" -> <<"RPAREN", 1>>
           [] char = "{" -> <<"LBRACE", 1>>
           [] char = "}" -> <<"RBRACE", 1>>
           [] char = "[" -> <<"LBRACKET", 1>>
           [] char = "]" -> <<"RBRACKET", 1>>
           [] char = "," -> <<"COMMA", 1>>
           [] char = ";" -> <<"SEMICOLON", 1>>
           [] char = ":" -> <<"COLON", 1>>
           [] char = "." -> <<"DOT", 1>>
           [] char = "?" -> <<"QUESTION", 1>>
           [] char = "|" -> <<"PIPE", 1>>
           [] OTHER -> <<"UNKNOWN", 0>>

\* The text of an operator token, as the lexer stores it in Token.value.
operator_text(src, l, n) ==
    IF n = 2 THEN src[l.pos + 1] \o src[l.pos + 2] ELSE src[l.pos + 1]

\* ---- the spelling of every keyword and operator ----

\* The keys of Lexer.keywords, character by character.
KeywordSpellings ==
    {<<"f", "u", "n", "c">>, <<"r", "e", "t", "u", "r", "n">>, <<"i", "f">>,
     <<"e", "l", "s", "e">>, <<"w", "h", "i", "l", "e">>, <<"f", "o", "r">>,
     <<"i", "n">>, <<"b", "r", "e", "a", "k">>,
     <<"c", "o", "n", "t", "i", "n", "u", "e">>, <<"i", "n", "t">>,
     <<"f", "l", "o", "a", "t">>, <<"s", "t", "r">>, <<"b", "o", "o", "l">>,
     <<"v", "o", "i", "d">>, <<"a", "u", "t", "o">>, <<"t", "r", "u", "e">>,
     <<"f", "a", "l", "s", "e">>, <<"n", "u", "l", "l">>,
     <<"a", "s", "y", "n", "c">>, <<"a", "w", "a", "i", "t">>,
     <<"p", "a", "r", "a", "l", "l", "e", "l">>, <<"m", "a", "t", "c", "h">>,
     <<"w", "i", "t", "h">>, <<"i", "m", "p", "o", "r", "t">>,
     <<"f", "r", "o", "m">>, <<"a", "s">>, <<"c", "l", "a", "s", "s">>,
     <<"t", "r", "a", "i", "t">>, <<"i", "m", "p", "l">>, <<"a", "n", "d">>,
     <<"o", "r">>, <<"n", "o", "t">>}

\* The operator and delimiter tokens tokenize constructs: the text each
\* Token(...) carries as its value, character by character, and its type.
OperatorTokens ==
    (<<"=", "=">> :> "EQ") @@
    (<<"!", "=">> :> "NEQ") @@
    (<<"<", "=">> :> "LTE") @@
    (<<">", "=">> :> "GTE") @@
    (<<"+", "=">> :> "PLUS_ASSIGN") @@
    (<<"-", "=">> :> "MINUS_ASSIGN") @@
    (<<"-", ">">> :> "ARROW") @@
    (<<"=", ">">> :> "FAT_ARROW") @@
    (<<"|", ">">> :> "PIPELINE") @@
    (<<"*", "*">> :> "POWER") @@
    (<<"+">> :> "PLUS") @@
    (<<"-">> :> "MINUS") @@
    (<<"*">> :> "MULTIPLY") @@
    (<<"/">> :> "DIVIDE") @@
    (<<"%">> :> "MODULO") @@
    (<<"=">> :> "ASSIGN") @@
    (<<"<">> :> "LT") @@
    (<<">">> :> "GT") @@
    (<<"(">> :> "LPAREN") @@
    (<<")">> :> "RPAREN") @@
    (<<"{">> :> "LBRACE") @@
    (<<"}">> :> "RBRACE") @@
    (<<"[">> :> "LBRACKET") @@
    (<<"]">> :> "RBRACKET") @@
    (<<",">> :> "COMMA") @@
    (<<";">> :> "SEMICOLON") @@
    (<<":">> :> "COLON") @@
    (<<".">> :> "DOT") @@
    (<<"?">> :> "QUESTION") @@
    (<<"|">> :> "PIPE")

\* The characters of a text joined into one Python str.
RECURSIVE Join(_)
Join(chars) == IF chars = <<>> THEN "" ELSE Head(chars) \o Join(Tail(chars))

\* The token type a spelling stands for.
KindOf(chars) ==
    IF chars \in DOMAIN OperatorTokens THEN OperatorTokens[chars]
    ELSE keywords[Join(chars)]

Spellings == KeywordSpellings \cup DOMAIN OperatorTokens

\* ---- Lexer.__init__ ----
\* The sources: every short text over the alphabet, and every keyword and
\* operator on its own.
LexInit ==
    /\ source \in SeqsUpTo(Alphabet, MaxSrcLen) \cup Spellings
    /\ lex = [pos |-> 0, line |-> 1, column |-> 1]
    /\ tokens = <<>>
    /\ lexStatus = "running"
    /\ lexError = NoError
    /\ parser = NoParser
    /\ AfterParseIdle

\* The position one iteration of the main loop dispatches on: the loop is
\* entered while current_char() is not None, and skips blanks first.
LoopAt == skip_whitespace(source, lex)
InLoop == lexStatus = "running" /\ current_char(source, lex) # None
LoopChar == current_char(source, LoopAt)

\* `#`: skip_comment(); continue
TokenizeComment ==
    /\ UNCHANGED afterLex
    /\ InLoop
    /\ LoopChar = "#"
    /\ lex' = skip_comment(source, LoopAt)
    /\ UNCHANGED <<source, tokens, lexStatus, lexError>>

\* newline: a NEWLINE token
TokenizeNewline ==
    /\ UNCHANGED afterLex
    /\ InLoop
    /\ LoopChar = NL
    /\ tokens' = Append(tokens, Token("NEWLINE", NL, "str",
                                      LoopAt.line, LoopAt.column))
    /\ lex' = advance(source, LoopAt)
    /\ UNCHANGED <<source, lexStatus, lexError>>

\* digit: read_number()
TokenizeNumber ==
    /\ UNCHANGED afterLex
    /\ InLoop
    /\ LoopChar # None /\ isdigit(LoopChar)
    /\ LET r == read_number(source, LoopAt) IN
        /\ tokens' = Append(tokens, r.tok)
        /\ lex' = r.l
    /\ UNCHANGED <<source, lexStatus, lexError>>

\* quote: read_string(quote); the TypeError of read_string propagates
TokenizeString ==
    /\ UNCHANGED afterLex
    /\ InLoop
    /\ LoopChar \in {DQ, SQ}
    /\ LET r == read_string(source, LoopAt, LoopChar) IN
        IF r.err = NoError
        THEN /\ tokens' = Append(tokens, r.tok)
             /\ lex' = r.l
             /\ UNCHANGED <<lexStatus, lexError>>
        ELSE /\ lex' = r.l
             /\ lexStatus' = "raised"
             /\ lexError' = r.err
             /\ UNCHANGED tokens
    /\ UNCHANGED source

\* letter or underscore: read_identifier()
TokenizeIdentifier ==
    /\ UNCHANGED afterLex
    /\ InLoop
    /\ LoopChar # None /\ (isalpha(LoopChar) \/ LoopChar = "_")
    /\ LET r == read_identifier(source, LoopAt) IN
        /\ tokens' = Append(tokens, r.tok)
        /\ lex' = r.l
    /\ UNCHANGED <<source, lexStatus, lexError>>

IsOtherChar(c) ==
    /\ c # None
    /\ c \notin {"#", NL, DQ, SQ, "_"}
    /\ ~isdigit(c)
    /\ ~isalpha(c)

\* one- and two-character operators
TokenizeOperator ==
    /\ UNCHANGED afterLex
    /\ InLoop
    /\ IsOtherChar(LoopChar)
    /\ LET op == operator_at(LoopChar, peek(source, LoopAt)) IN
        /\ op[1] # "UNKNOWN"
        /\ tokens' = Append(tokens, Token(op[1], operator_text(source, LoopAt, op[2]), "str",
                                          LoopAt.line, LoopAt.column))
        /\ lex' = IF op[2] = 2 THEN advance(source, advance(source, LoopAt))
                  ELSE advance(source, LoopAt)
    /\ UNCHANGED <<source, lexStatus, lexError>>

\* raise SyntaxError("Carácter desconocido '{char}' en {line}:{col}")
TokenizeUnknown ==
    /\ UNCHANGED afterLex
    /\ InLoop
    /\ IsOtherChar(LoopChar)
    /\ operator_at(LoopChar, peek(source, LoopAt))[1] = "UNKNOWN"
    /\ lex' = LoopAt
    /\ lexStatus' = "raised"
    /\ lexError' = [kind |-> "SyntaxError", char |-> LoopChar,
                    line |-> LoopAt.line, column |-> LoopAt.column]
    /\ UNCHANGED <<source, tokens>>

\* The loop ends (at its head, or at the break after skip_whitespace): the
\* EOF token is appended and the list returned.
TokenizeReturn ==
    /\ UNCHANGED afterLex
    /\ lexStatus = "running"
    /\ LoopChar = None
    /\ lex' = LoopAt
    /\ tokens' = Append(tokens, Token("EOF", None, "NoneType", LoopAt.line, LoopAt.column))
    /\ lexStatus' = "returned"
    /\ UNCHANGED <<source, lexError>>

LexNext ==
    \/ TokenizeComment
    \/ TokenizeNewline
    \/ TokenizeNumber
    \/ TokenizeString
    \/ TokenizeIdentifier
    \/ TokenizeOperator
    \/ TokenizeUnknown
    \/ TokenizeReturn

SpecLex == LexInit /\ [][LexNext]_vars

(***************************************************************************)
(*                                 AST                                     *)
(***************************************************************************)
\* Python's None where a node is optional.
NullNode == [node |-> "None"]

\* NumberLiteral.value is a Python int or float: `pytype` says which.
NumberLiteral(value, pytype) ==
    [node |-> "NumberLiteral", value |-> value, pytype |-> pytype]
StringLiteral(value) == [node |-> "StringLiteral", value |-> value]
BooleanLiteral(value) == [node |-> "BooleanLiteral", value |-> value]
NullLiteral == [node |-> "NullLiteral"]
Identifier(name) == [node |-> "Identifier", name |-> name]
BinaryOp(left, operator, right) ==
    [node |-> "BinaryOp", left |-> left, operator |-> operator, right |-> right]
UnaryOp(operator, operand) ==
    [node |-> "UnaryOp", operator |-> operator, operand |-> operand]
CallExpr(callee, arguments) ==
    [node |-> "CallExpr", callee |-> callee, arguments |-> arguments]
ArrayLiteral(elements) == [node |-> "ArrayLiteral", elements |-> elements]
IndexExpr(array, index) == [node |-> "IndexExpr", array |-> array, index |-> index]
MemberAccess(object, member) ==
    [node |-> "MemberAccess", object |-> object, member |-> member]
LambdaExpr(parameters, body, return_type) ==
    [node |-> "LambdaExpr", parameters |-> parameters, body |-> body,
     return_type |-> return_type]
PipelineExpr(value, functions) ==
    [node |-> "PipelineExpr", value |-> value, functions |-> functions]
MatchExpr(value, cases) == [node |-> "MatchExpr", value |-> value, cases |-> cases]
ObjectLiteral(class_name, fields) ==
    [node |-> "ObjectLiteral", class_name |-> class_name, fields |-> fields]
AsyncAwait(expression) == [node |-> "AsyncAwait", expression |-> expression]

VarDeclaration(name, var_type, initializer) ==
    [node |-> "VarDeclaration", name |-> name, var_type |-> var_type,
     initializer |-> initializer]
FunctionDeclaration(name, parameters, return_type, body, is_async) ==
    [node |-> "FunctionDeclaration", name |-> name, parameters |-> parameters,
     return_type |-> return_type, body |-> body, is_async |-> is_async]
ClassDeclaration(name, methods, fields, traits) ==
    [node |-> "ClassDeclaration", name |-> name, methods |-> methods,
     fields |-> fields, traits |-> traits]
TraitDeclaration(name, methods) ==
    [node |-> "TraitDeclaration", name |-> name, methods |-> methods]
Block(statements) == [node |-> "Block", statements |-> statements]
ExpressionStatement(expression) ==
    [node |-> "ExpressionStatement", expression |-> expression]
ReturnStatement(value) == [node |-> "ReturnStatement", value |-> value]
IfStatement(condition, then_branch, else_branch) ==
    [node |-> "IfStatement", condition |-> condition,
     then_branch |-> then_branch, else_branch |-> else_branch]
WhileStatement(condition, body) ==
    [node |-> "WhileStatement", condition |-> condition, body |-> body]
ForStatement(variable, iterable, body) ==
    [node |-> "ForStatement", variable |-> variable, iterable |-> iterable,
     body |-> body]
BreakStatement == [node |-> "BreakStatement"]
ContinueStatement == [node |-> "ContinueStatement"]
AssignmentStatement(target, value, operator) ==
    [node |-> "AssignmentStatement", target |-> target, value |-> value,
     operator |-> operator]
ParallelBlock(tasks) == [node |-> "ParallelBlock", tasks |-> tasks]
ImportStatement(module, items, alias) ==
    [node |-> "ImportStatement", module |-> module, items |-> items,
     alias |-> alias]
Program(statements) == [node |-> "Program", statements |-> statements]

(***************************************************************************)
(*                                PARSER                                   *)
(***************************************************************************)
\* What a parse method gives back: the node it returns and the cursor
\* (Parser.pos) it leaves, or the SyntaxError it raises, with the cursor at
\* the offending token and the token type expect() wanted ("" elsewhere).
Ok(node, pos) == [ok |-> TRUE, node |-> node, pos |-> pos, expected |-> ""]
Raise(pos, expected) ==
    [ok |-> FALSE, node |-> NullNode, pos |-> pos, expected |-> expected]

\* Parser.current: the last token (EOF) once the cursor is past the end.
current(toks, pos) == IF pos >= Len(toks) THEN toks[Len(toks)] ELSE toks[pos + 1]

\* Parser.peek(offset = 1)
peek_token(toks, pos) ==
    IF pos + 1 >= Len(toks) THEN toks[Len(toks)] ELSE toks[pos + 2]

\* Parser.advance: the cursor does not move past an EOF token.
advance_token(toks, pos) == IF current(toks, pos).type # "EOF" THEN pos + 1 ELSE pos

\* Parser.expect: the expected token, or SyntaxError.
expect(toks, pos, token_type) ==
    IF current(toks, pos).type # token_type
    THEN Raise(pos, token_type)
    ELSE Ok(current(toks, pos), advance_token(toks, pos))

\* Parser.match
match(toks, pos, token_types) == current(toks, pos).type \in token_types

\* Parser.skip_newlines
RECURSIVE skip_newlines(_, _)
skip_newlines(toks, pos) ==
    IF match(toks, pos, {"NEWLINE"})
    THEN skip_newlines(toks, advance_token(toks, pos))
    ELSE pos

\* A method calling a method: Call("parse_unary", toks, pos) is
\* self.parse_unary() with the cursor at pos.  The methods call one another
\* recursively, and are told apart at the end of this section.
RECURSIVE Call(_, _, _)

\* ---------------------------- expressions ------------------------------

\* Parser.parse_pipeline, the loop collecting the functions after each `|>`
RECURSIVE parse_pipeline_loop(_, _, _, _)
parse_pipeline_loop(toks, pos, expr, functions) ==
    IF match(toks, pos, {"PIPELINE"})
    THEN LET r == Call("parse_logical_or", toks, advance_token(toks, pos)) IN
         IF r.ok
         THEN parse_pipeline_loop(toks, r.pos, expr, Append(functions, r.node))
         ELSE r
    ELSE Ok(PipelineExpr(expr, functions), pos)

\* Parser.parse_pipeline
parse_pipeline(toks, pos) ==
    LET r == Call("parse_logical_or", toks, pos) IN
    IF r.ok
    THEN IF match(toks, r.pos, {"PIPELINE"})
         THEN parse_pipeline_loop(toks, r.pos, r.node, <<>>)
         ELSE r
    ELSE r

\* Parser.parse_expression
parse_expression(toks, pos) == parse_pipeline(toks, pos)

RECURSIVE parse_logical_or_loop(_, _, _)
parse_logical_or_loop(toks, pos, left) ==
    IF match(toks, pos, {"OR"})
    THEN LET op == current(toks, pos).value
             r == Call("parse_logical_and", toks, advance_token(toks, pos))
         IN  IF r.ok
             THEN parse_logical_or_loop(toks, r.pos, BinaryOp(left, op, r.node))
             ELSE r
    ELSE Ok(left, pos)

\* Parser.parse_logical_or
parse_logical_or(toks, pos) ==
    LET r == Call("parse_logical_and", toks, pos) IN
    IF r.ok THEN parse_logical_or_loop(toks, r.pos, r.node) ELSE r

RECURSIVE parse_logical_and_loop(_, _, _)
parse_logical_and_loop(toks, pos, left) ==
    IF match(toks, pos, {"AND"})
    THEN LET op == current(toks, pos).value
             r == Call("parse_equality", toks, advance_token(toks, pos))
         IN  IF r.ok
             THEN parse_logical_and_loop(toks, r.pos, BinaryOp(left, op, r.node))
             ELSE r
    ELSE Ok(left, pos)

\* Parser.parse_logical_and
parse_logical_and(toks, pos) ==
    LET r == Call("parse_equality", toks, pos) IN
    IF r.ok THEN parse_logical_and_loop(toks, r.pos, r.node) ELSE r

RECURSIVE parse_equality_loop(_, _, _)
parse_equality_loop(toks, pos, left) ==
    IF match(toks, pos, {"EQ", "NEQ"})
    THEN LET op == current(toks, pos).value
             r == Call("parse_comparison", toks, advance_token(toks, pos))
         IN  IF r.ok
             THEN parse_equality_loop(toks, r.pos, BinaryOp(left, op, r.node))
             ELSE r
    ELSE Ok(left, pos)

\* Parser.parse_equality
parse_equality(toks, pos) ==
    LET r == Call("parse_comparison", toks, pos) IN
    IF r.ok THEN parse_equality_loop(toks, r.pos, r.node) ELSE r

RECURSIVE parse_comparison_loop(_, _, _)
parse_comparison_loop(toks, pos, left) ==
    IF match(toks, pos, {"LT", "GT", "LTE", "GTE"})
    THEN LET op == current(toks, pos).value
             r == Call("parse_addition", toks, advance_token(toks, pos))
         IN  IF r.ok
             THEN parse_comparison_loop(toks, r.pos, BinaryOp(left, op, r.node))
             ELSE r
    ELSE Ok(left, pos)

\* Parser.parse_comparison
parse_comparison(toks, pos) ==
    LET r == Call("parse_addition", toks, pos) IN
    IF r.ok THEN parse_comparison_loop(toks, r.pos, r.node) ELSE r

RECURSIVE parse_addition_loop(_, _, _)
parse_addition_loop(toks, pos, left) ==
    IF match(toks, pos, {"PLUS", "MINUS"})
    THEN LET op == current(toks, pos).value
             r == Call("parse_multiplication", toks, advance_token(toks, pos))
         IN  IF r.ok
             THEN parse_addition_loop(toks, r.pos, BinaryOp(left, op, r.node))
             ELSE r
    ELSE Ok(left, pos)

\* Parser.parse_addition
parse_addition(toks, pos) ==
    LET r == Call("parse_multiplication", toks, pos) IN
    IF r.ok THEN parse_addition_loop(toks, r.pos, r.node) ELSE r

RECURSIVE parse_multiplication_loop(_, _, _)
parse_multiplication_loop(toks, pos, left) ==
    IF match(toks, pos, {"MULTIPLY", "DIVIDE", "MODULO"})
    THEN LET op == current(toks, pos).value
             r == Call("parse_power", toks, advance_token(toks, pos))
         IN  IF r.ok
             THEN parse_multiplication_loop(toks, r.pos, BinaryOp(left, op, r.node))
             ELSE r
    ELSE Ok(left, pos)

\* Parser.parse_multiplication
parse_multiplication(toks, pos) ==
    LET r == Call("parse_power", toks, pos) IN
    IF r.ok THEN parse_multiplication_loop(toks, r.pos, r.node) ELSE r

\* parse_power reading its right operand with parse_unary, as the levels
\* below read theirs with the next level.
parse_power_right_operand_unary(toks, pos) ==
    LET l == Call("parse_unary", toks, pos) IN
    IF l.ok
    THEN IF match(toks, l.pos, {"POWER"})
         THEN LET op == current(toks, l.pos).value
                  r == Call("parse_unary", toks, advance_token(toks, l.pos))
              IN  IF r.ok THEN Ok(BinaryOp(l.node, op, r.node), r.pos) ELSE r
         ELSE l
    ELSE l

\* Parser.parse_power: the right operand is parsed by parse_power itself
parse_power(toks, pos) ==
    LET l == Call("parse_unary", toks, pos) IN
    IF l.ok
    THEN IF match(toks, l.pos, {"POWER"})
         THEN LET op == current(toks, l.pos).value
                  r == Call("parse_power", toks, advance_token(toks, l.pos))
              IN  IF r.ok THEN Ok(BinaryOp(l.node, op, r.node), r.pos) ELSE r
         ELSE l
    ELSE l

\* parse_unary building the UnaryOp although its operand did not parse.
parse_unary_without_operand(toks, pos) ==
    IF match(toks, pos, {"NOT", "MINUS"})
    THEN LET op == current(toks, pos).value
             r == Call("parse_unary", toks, advance_token(toks, pos))
         IN  Ok(UnaryOp(op, r.node), r.pos)
    ELSE Call("parse_postfix", toks, pos)

\* Parser.parse_unary
parse_unary(toks, pos) ==
    IF match(toks, pos, {"NOT", "MINUS"})
    THEN LET op == current(toks, pos).value
             r == Call("parse_unary", toks, advance_token(toks, pos))
         IN  IF r.ok THEN Ok(UnaryOp(op, r.node), r.pos) ELSE r
    ELSE IF match(toks, pos, {"AWAIT"})
         THEN LET r == Call("parse_unary", toks, advance_token(toks, pos)) IN
              IF r.ok THEN Ok(AsyncAwait(r.node), r.pos) ELSE r
         ELSE Call("parse_postfix", toks, pos)

\* The `while True` loops that read a comma-separated list of expressions
\* (parse_argument_list, the array literal of parse_primary).
RECURSIVE parse_expression_list(_, _, _)
parse_expression_list(toks, pos, items) ==
    LET r == Call("parse_expression", toks, pos) IN
    IF r.ok
    THEN IF ~match(toks, r.pos, {"COMMA"})
         THEN Ok(Append(items, r.node), r.pos)
         ELSE parse_expression_list(toks, advance_token(toks, r.pos),
                                    Append(items, r.node))
    ELSE r

\* Parser.parse_argument_list
parse_argument_list(toks, pos) ==
    IF ~match(toks, pos, {"RPAREN"})
    THEN parse_expression_list(toks, pos, <<>>)
    ELSE Ok(<<>>, pos)

\* The loop of Parser.parse_postfix: calls, index accesses, member accesses
RECURSIVE parse_postfix_loop(_, _, _)
parse_postfix_loop(toks, pos, expr) ==
    CASE match(toks, pos, {"LPAREN"}) ->
            LET a == Call("parse_argument_list", toks, advance_token(toks, pos)) IN
            IF a.ok
            THEN LET e == expect(toks, a.pos, "RPAREN") IN
                 IF e.ok
                 THEN parse_postfix_loop(toks, e.pos, CallExpr(expr, a.node))
                 ELSE e
            ELSE a
      [] match(toks, pos, {"LBRACKET"}) ->
            LET i == Call("parse_expression", toks, advance_token(toks, pos)) IN
            IF i.ok
            THEN LET e == expect(toks, i.pos, "RBRACKET") IN
                 IF e.ok
                 THEN parse_postfix_loop(toks, e.pos, IndexExpr(expr, i.node))
                 ELSE e
            ELSE i
      [] match(toks, pos, {"DOT"}) ->
            LET m == expect(toks, advance_token(toks, pos), "IDENTIFIER") IN
            IF m.ok
            THEN parse_postfix_loop(toks, m.pos, MemberAccess(expr, m.node.value))
            ELSE m
      [] OTHER -> Ok(expr, pos)

\* Parser.parse_postfix
parse_postfix(toks, pos) ==
    LET r == Call("parse_primary", toks, pos) IN
    IF r.ok THEN parse_postfix_loop(toks, r.pos, r.node) ELSE r

\* The field initialisers `name = value, ...` of an object literal
RECURSIVE parse_object_fields(_, _, _)
parse_object_fields(toks, pos, fields) ==
    LET n == expect(toks, pos, "IDENTIFIER") IN
    IF n.ok
    THEN LET a == expect(toks, n.pos, "ASSIGN") IN
         IF a.ok
         THEN LET v == Call("parse_expression", toks, a.pos) IN
              IF v.ok
              THEN IF ~match(toks, v.pos, {"COMMA"})
                   THEN Ok(Append(fields, <<n.node.value, v.node>>), v.pos)
                   ELSE parse_object_fields(toks, advance_token(toks, v.pos),
                            Append(fields, <<n.node.value, v.node>>))
              ELSE v
         ELSE a
    ELSE n

\* Parser.parse_primary: the branches in the order of the code, the first
\* that matches returns.  The identifier branch comes before the
\* object-literal branch.
parse_primary(toks, pos) ==
    CASE match(toks, pos, {"NUMBER"}) ->
        Ok(NumberLiteral(current(toks, pos).value, current(toks, pos).pytype),
           advance_token(toks, pos))
      [] match(toks, pos, {"STRING"}) ->
        Ok(StringLiteral(current(toks, pos).value), advance_token(toks, pos))
      [] match(toks, pos, {"BOOLEAN"}) ->
        Ok(BooleanLiteral(current(toks, pos).value), advance_token(toks, pos))
      [] match(toks, pos, {"NULL"}) ->
        Ok(NullLiteral, advance_token(toks, pos))
      [] match(toks, pos, {"IDENTIFIER"}) ->
        Ok(Identifier(current(toks, pos).value), advance_token(toks, pos))
      [] match(toks, pos, {"LBRACKET"}) ->
        LET p1 == advance_token(toks, pos)
            els == IF ~match(toks, p1, {"RBRACKET"})
                   THEN parse_expression_list(toks, p1, <<>>)
                   ELSE Ok(<<>>, p1)
        IN  IF els.ok
            THEN LET e == expect(toks, els.pos, "RBRACKET") IN
                 IF e.ok THEN Ok(ArrayLiteral(els.node), e.pos) ELSE e
            ELSE els
      [] match(toks, pos, {"LPAREN"}) ->
        LET r == Call("parse_expression", toks, advance_token(toks, pos)) IN
        IF r.ok
        THEN LET e == expect(toks, r.pos, "RPAREN") IN
             IF e.ok THEN Ok(r.node, e.pos) ELSE e
        ELSE r
      [] match(toks, pos, {"MATCH"}) ->
        Call("parse_match_expression", toks, pos)
      [] match(toks, pos, {"PIPE"}) ->
        Call("parse_lambda", toks, pos)
      [] OTHER ->
        IF match(toks, pos, {"IDENTIFIER"}) /\ peek_token(toks, pos).type = "LBRACE"
        THEN LET class_name == current(toks, pos).value
                 b == expect(toks, advance_token(toks, pos), "LBRACE")
             IN  IF b.ok
                 THEN LET fs == IF ~match(toks, b.pos, {"RBRACE"})
                                THEN parse_object_fields(toks, b.pos, <<>>)
                                ELSE Ok(<<>>, b.pos)
                      IN  IF fs.ok
                          THEN LET e == expect(toks, fs.pos, "RBRACE") IN
                               IF e.ok
                               THEN Ok(ObjectLiteral(class_name, fs.node), e.pos)
                               ELSE e
                          ELSE fs
                 ELSE b
        ELSE Raise(pos, "")

\* The loop of Parser.parse_match_expression: `pattern => result` cases
RECURSIVE parse_match_cases(_, _, _)
parse_match_cases(toks, pos, cases) ==
    IF match(toks, pos, {"RBRACE"})
    THEN Ok(cases, pos)
    ELSE LET p == Call("parse_expression", toks, pos) IN
         IF p.ok
         THEN LET a == expect(toks, p.pos, "FAT_ARROW") IN
              IF a.ok
              THEN LET r == Call("parse_expression", toks, a.pos) IN
                   IF r.ok
                   THEN parse_match_cases(toks, skip_newlines(toks, r.pos),
                                          Append(cases, <<p.node, r.node>>))
                   ELSE r
              ELSE a
         ELSE p

\* Parser.parse_match_expression
parse_match_expression(toks, pos) ==
    LET m == expect(toks, pos, "MATCH") IN
    IF m.ok
    THEN LET v == Call("parse_expression", toks, m.pos) IN
         IF v.ok
         THEN LET b == expect(toks, v.pos, "LBRACE") IN
              IF b.ok
              THEN LET cs == parse_match_cases(toks, skip_newlines(toks, b.pos), <<>>) IN
                   IF cs.ok
                   THEN LET e == expect(toks, cs.pos, "RBRACE") IN
                        IF e.ok THEN Ok(MatchExpr(v.node, cs.node), e.pos) ELSE e
                   ELSE cs
              ELSE b
         ELSE v
    ELSE m

\* ----------------------------- statements ------------------------------

\* Parser.parse_type: the type string
parse_type(toks, pos) ==
    CASE match(toks, pos, {"INT"}) -> Ok("int", advance_token(toks, pos))
      [] match(toks, pos, {"FLOAT"}) -> Ok("float", advance_token(toks, pos))
      [] match(toks, pos, {"STR"}) -> Ok("str", advance_token(toks, pos))
      [] match(toks, pos, {"BOOL"}) -> Ok("bool", advance_token(toks, pos))
      [] match(toks, pos, {"VOID"}) -> Ok("void", advance_token(toks, pos))
      [] match(toks, pos, {"AUTO"}) -> Ok("auto", advance_token(toks, pos))
      [] match(toks, pos, {"IDENTIFIER"}) ->
            Ok(current(toks, pos).value, advance_token(toks, pos))
      [] OTHER -> Raise(pos, "")

\* The `while True` loop of Parser.parse_parameter_list: `name: type, ...`
RECURSIVE parse_parameters(_, _, _)
parse_parameters(toks, pos, parameters) ==
    LET n == expect(toks, pos, "IDENTIFIER") IN
    IF n.ok
    THEN LET c == expect(toks, n.pos, "COLON") IN
         IF c.ok
         THEN LET t == Call("parse_type", toks, c.pos) IN
              IF t.ok
              THEN IF ~match(toks, t.pos, {"COMMA"})
                   THEN Ok(Append(parameters, <<n.node.value, t.node>>), t.pos)
                   ELSE parse_parameters(toks, advance_token(toks, t.pos),
                            Append(parameters, <<n.node.value, t.node>>))
              ELSE t
         ELSE c
    ELSE n

\* Parser.parse_parameter_list
parse_parameter_list(toks, pos) ==
    IF ~match(toks, pos, {"RPAREN"})
    THEN parse_parameters(toks, pos, <<>>)
    ELSE Ok(<<>>, pos)

\* The part parse_function_declaration and parse_function_signature share:
\* name `(` parameters `)` [`->` type]; the node is <<name, parameters,
\* return_type>>.
parse_signature(toks, pos) ==
    LET n == expect(toks, pos, "IDENTIFIER") IN
    IF n.ok
    THEN LET l == expect(toks, n.pos, "LPAREN") IN
         IF l.ok
         THEN LET ps == Call("parse_parameter_list", toks, l.pos) IN
              IF ps.ok
              THEN LET r == expect(toks, ps.pos, "RPAREN") IN
                   IF r.ok
                   THEN IF match(toks, r.pos, {"ARROW"})
                        THEN LET t == Call("parse_type", toks, advance_token(toks, r.pos)) IN
                             IF t.ok
                             THEN Ok(<<n.node.value, ps.node, t.node>>, t.pos)
                             ELSE t
                        ELSE Ok(<<n.node.value, ps.node, "void">>, r.pos)
                   ELSE r
              ELSE ps
         ELSE l
    ELSE n

\* Parser.parse_function_declaration
parse_function_declaration(toks, pos) ==
    LET f == expect(toks, pos, "FUNC") IN
    IF f.ok
    THEN LET is_async == match(toks, f.pos, {"ASYNC"})
             p1 == IF is_async THEN advance_token(toks, f.pos) ELSE f.pos
             sig == Call("parse_signature", toks, p1)
         IN  IF sig.ok
             THEN LET body == Call("parse_block", toks, sig.pos) IN
                  IF body.ok
                  THEN Ok(FunctionDeclaration(sig.node[1], sig.node[2], sig.node[3],
                                              body.node, is_async), body.pos)
                  ELSE body
             ELSE sig
    ELSE f

\* Parser.parse_function_signature: a trait method, without a body
parse_function_signature(toks, pos) ==
    LET f == expect(toks, pos, "FUNC") IN
    IF f.ok
    THEN LET sig == Call("parse_signature", toks, f.pos) IN
         IF sig.ok
         THEN Ok(FunctionDeclaration(sig.node[1], sig.node[2], sig.node[3],
                                     NullNode, FALSE), sig.pos)
         ELSE sig
    ELSE f

\* Parser.parse_var_declaration
parse_var_declaration(toks, pos) ==
    LET t == Call("parse_type", toks, pos) IN
    IF t.ok
    THEN LET n == expect(toks, t.pos, "IDENTIFIER") IN
         IF n.ok
         THEN IF match(toks, n.pos, {"ASSIGN"})
              THEN LET i == Call("parse_expression", toks, advance_token(toks, n.pos)) IN
                   IF i.ok
                   THEN Ok(VarDeclaration(n.node.value, t.node, i.node), i.pos)
                   ELSE i
              ELSE Ok(VarDeclaration(n.node.value, t.node, NullNode), n.pos)
         ELSE n
    ELSE t

\* A `while True` loop reading comma-separated identifiers (the traits of a
\* class, the items of `from m import ...`)
RECURSIVE parse_identifier_list(_, _, _)
parse_identifier_list(toks, pos, items) ==
    LET n == expect(toks, pos, "IDENTIFIER") IN
    IF n.ok
    THEN IF ~match(toks, n.pos, {"COMMA"})
         THEN Ok(Append(items, n.node.value), n.pos)
         ELSE parse_identifier_list(toks, advance_token(toks, n.pos),
                                    Append(items, n.node.value))
    ELSE n

\* The member loop of Parser.parse_class_declaration: <<fields, methods>>
RECURSIVE parse_class_members(_, _, _, _)
parse_class_members(toks, pos, fields, methods) ==
    IF match(toks, pos, {"RBRACE"})
    THEN Ok(<<fields, methods>>, pos)
    ELSE IF match(toks, pos, {"FUNC"})
         THEN LET m == Call("parse_function_declaration", toks, pos) IN
              IF m.ok
              THEN parse_class_members(toks, skip_newlines(toks, m.pos), fields,
                                       Append(methods, m.node))
              ELSE m
         ELSE LET f == Call("parse_var_declaration", toks, pos) IN
              IF f.ok
              THEN parse_class_members(toks, skip_newlines(toks, f.pos),
                                       Append(fields, f.node), methods)
              ELSE f

\* Parser.parse_class_declaration
parse_class_declaration(toks, pos) ==
    LET c == expect(toks, pos, "CLASS") IN
    IF c.ok
    THEN LET n == expect(toks, c.pos, "IDENTIFIER") IN
         IF n.ok
         THEN LET traits == IF match(toks, n.pos, {"COLON"})
                            THEN parse_identifier_list(toks, advance_token(toks, n.pos), <<>>)
                            ELSE Ok(<<>>, n.pos)
              IN  IF traits.ok
                  THEN LET b == expect(toks, skip_newlines(toks, traits.pos), "LBRACE") IN
                       IF b.ok
                       THEN LET ms == parse_class_members(toks, skip_newlines(toks, b.pos),
                                                          <<>>, <<>>) IN
                            IF ms.ok
                            THEN LET e == expect(toks, ms.pos, "RBRACE") IN
                                 IF e.ok
                                 THEN Ok(ClassDeclaration(n.node.value, ms.node[2],
                                                          ms.node[1], traits.node), e.pos)
                                 ELSE e
                            ELSE ms
                       ELSE b
                  ELSE traits
         ELSE n
    ELSE c

\* The method loop of Parser.parse_trait_declaration
RECURSIVE parse_trait_methods(_, _, _)
parse_trait_methods(toks, pos, methods) ==
    IF match(toks, pos, {"RBRACE"})
    THEN Ok(methods, pos)
    ELSE LET m == Call("parse_function_signature", toks, pos) IN
         IF m.ok
         THEN parse_trait_methods(toks, skip_newlines(toks, m.pos),
                                  Append(methods, m.node))
         ELSE m

\* Parser.parse_trait_declaration
parse_trait_declaration(toks, pos) ==
    LET t == expect(toks, pos, "TRAIT") IN
    IF t.ok
    THEN LET n == expect(toks, t.pos, "IDENTIFIER") IN
         IF n.ok
         THEN LET b == expect(toks, skip_newlines(toks, n.pos), "LBRACE") IN
              IF b.ok
              THEN LET ms == parse_trait_methods(toks, skip_newlines(toks, b.pos), <<>>) IN
                   IF ms.ok
                   THEN LET e == expect(toks, ms.pos, "RBRACE") IN
                        IF e.ok
                        THEN Ok(TraitDeclaration(n.node.value, ms.node), e.pos)
                        ELSE e
                   ELSE ms
              ELSE b
         ELSE n
    ELSE t

\* The statement loop of Parser.parse_block
RECURSIVE parse_block_loop(_, _, _)
parse_block_loop(toks, pos, statements) ==
    IF match(toks, pos, {"RBRACE"})
    THEN Ok(statements, pos)
    ELSE LET r == Call("parse_statement", toks, pos) IN
         IF r.ok
         THEN parse_block_loop(toks, skip_newlines(toks, r.pos),
                               IF r.node # NullNode THEN Append(statements, r.node)
                               ELSE statements)
         ELSE r

\* Parser.parse_block
parse_block(toks, pos) ==
    LET b == expect(toks, pos, "LBRACE") IN
    IF b.ok
    THEN LET ss == parse_block_loop(toks, skip_newlines(toks, b.pos), <<>>) IN
         IF ss.ok
         THEN LET e == expect(toks, ss.pos, "RBRACE") IN
              IF e.ok THEN Ok(Block(ss.node), e.pos) ELSE e
         ELSE ss
    ELSE b

\* Parser.parse_return_statement
parse_return_statement(toks, pos) ==
    LET r == expect(toks, pos, "RETURN") IN
    IF r.ok
    THEN IF ~match(toks, r.pos, {"NEWLINE", "RBRACE", "EOF"})
         THEN LET v == Call("parse_expression", toks, r.pos) IN
              IF v.ok THEN Ok(ReturnStatement(v.node), v.pos) ELSE v
         ELSE Ok(ReturnStatement(NullNode), r.pos)
    ELSE r

\* Parser.parse_if_statement
parse_if_statement(toks, pos) ==
    LET i == expect(toks, pos, "IF") IN
    IF i.ok
    THEN LET c == Call("parse_expression", toks, i.pos) IN
         IF c.ok
         THEN LET t == Call("parse_block", toks, c.pos) IN
              IF t.ok
              THEN IF match(toks, t.pos, {"ELSE"})
                   THEN LET p1 == advance_token(toks, t.pos)
                            e == IF match(toks, p1, {"IF"})
                                 THEN Call("parse_if_statement", toks, p1)
                                 ELSE Call("parse_block", toks, p1)
                        IN  IF e.ok
                            THEN Ok(IfStatement(c.node, t.node, e.node), e.pos)
                            ELSE e
                   ELSE Ok(IfStatement(c.node, t.node, NullNode), t.pos)
              ELSE t
         ELSE c
    ELSE i

\* Parser.parse_while_statement
parse_while_statement(toks, pos) ==
    LET w == expect(toks, pos, "WHILE") IN
    IF w.ok
    THEN LET c == Call("parse_expression", toks, w.pos) IN
         IF c.ok
         THEN LET b == Call("parse_block", toks, c.pos) IN
              IF b.ok THEN Ok(WhileStatement(c.node, b.node), b.pos) ELSE b
         ELSE c
    ELSE w

\* Parser.parse_for_statement
parse_for_statement(toks, pos) ==
    LET f == expect(toks, pos, "FOR") IN
    IF f.ok
    THEN LET v == expect(toks, f.pos, "IDENTIFIER") IN
         IF v.ok
         THEN LET i == expect(toks, v.pos, "IN") IN
              IF i.ok
              THEN LET it == Call("parse_expression", toks, i.pos) IN
                   IF it.ok
                   THEN LET b == Call("parse_block", toks, it.pos) IN
                        IF b.ok
                        THEN Ok(ForStatement(v.node.value, it.node, b.node), b.pos)
                        ELSE b
                   ELSE it
              ELSE i
         ELSE v
    ELSE f

\* The task loop of Parser.parse_parallel_block
RECURSIVE parse_parallel_tasks(_, _, _)
parse_parallel_tasks(toks, pos, tasks) ==
    IF match(toks, pos, {"RBRACE"})
    THEN Ok(tasks, pos)
    ELSE LET t == Call("parse_expression", toks, pos) IN
         IF t.ok
         THEN parse_parallel_tasks(toks, skip_newlines(toks, t.pos),
                                   Append(tasks, t.node))
         ELSE t

\* Parser.parse_parallel_block
parse_parallel_block(toks, pos) ==
    LET p == expect(toks, pos, "PARALLEL") IN
    IF p.ok
    THEN LET b == expect(toks, p.pos, "LBRACE") IN
         IF b.ok
         THEN LET ts == parse_parallel_tasks(toks, skip_newlines(toks, b.pos), <<>>) IN
              IF ts.ok
              THEN LET e == expect(toks, ts.pos, "RBRACE") IN
                   IF e.ok THEN Ok(ParallelBlock(ts.node), e.pos) ELSE e
              ELSE ts
         ELSE b
    ELSE p

\* Parser.parse_import_statement.  `items` and `alias` are None when absent.
parse_import_statement(toks, pos) ==
    IF match(toks, pos, {"FROM"})
    THEN LET m == expect(toks, advance_token(toks, pos), "IDENTIFIER") IN
         IF m.ok
         THEN LET i == expect(toks, m.pos, "IMPORT") IN
              IF i.ok
              THEN LET items == parse_identifier_list(toks, i.pos, <<>>) IN
                   IF items.ok
                   THEN Ok(ImportStatement(m.node.value, items.node, None), items.pos)
                   ELSE items
              ELSE i
         ELSE m
    ELSE LET i == expect(toks, pos, "IMPORT") IN
         IF i.ok
         THEN LET m == expect(toks, i.pos, "IDENTIFIER") IN
              IF m.ok
              THEN IF match(toks, m.pos, {"AS"})
                   THEN LET a == expect(toks, advance_token(toks, m.pos), "IDENTIFIER") IN
                        IF a.ok
                        THEN Ok(ImportStatement(m.node.value, None, a.node.value), a.pos)
                        ELSE a
                   ELSE Ok(ImportStatement(m.node.value, None, None), m.pos)
              ELSE m
         ELSE i

\* The `while True` loop of Parser.parse_lambda: `name[: type], ...`
RECURSIVE parse_lambda_parameters(_, _, _)
parse_lambda_parameters(toks, pos, parameters) ==
    LET n == expect(toks, pos, "IDENTIFIER") IN
    IF n.ok
    THEN LET t == IF match(toks, n.pos, {"COLON"})
                  THEN Call("parse_type", toks, advance_token(toks, n.pos))
                  ELSE Ok("auto", n.pos)
         IN  IF t.ok
             THEN IF ~match(toks, t.pos, {"COMMA"})
                  THEN Ok(Append(parameters, <<n.node.value, t.node>>), t.pos)
                  ELSE parse_lambda_parameters(toks, advance_token(toks, t.pos),
                           Append(parameters, <<n.node.value, t.node>>))
             ELSE t
    ELSE n

\* Parser.parse_lambda.  return_type is None when no `->` follows.
parse_lambda(toks, pos) ==
    LET p == expect(toks, pos, "PIPE") IN
    IF p.ok
    THEN LET ps == IF ~match(toks, p.pos, {"PIPE"})
                   THEN parse_lambda_parameters(toks, p.pos, <<>>)
                   ELSE Ok(<<>>, p.pos)
         IN  IF ps.ok
             THEN LET q == expect(toks, ps.pos, "PIPE") IN
                  IF q.ok
                  THEN LET rt == IF match(toks, q.pos, {"ARROW"})
                                 THEN Call("parse_type", toks, advance_token(toks, q.pos))
                                 ELSE Ok(None, q.pos)
                       IN  IF rt.ok
                           THEN LET body == IF match(toks, rt.pos, {"LBRACE"})
                                            THEN Call("parse_block", toks, rt.pos)
                                            ELSE Call("parse_expression", toks, rt.pos)
                                IN  IF body.ok
                                    THEN Ok(LambdaExpr(ps.node, body.node, rt.node),
                                            body.pos)
                                    ELSE body
                           ELSE rt
                  ELSE q
             ELSE ps
    ELSE p

\* Parser.parse_statement
parse_statement(toks, pos0) ==
    LET pos == skip_newlines(toks, pos0) IN
    CASE match(toks, pos, {"FUNC"}) -> Call("parse_function_declaration", toks, pos)
      [] match(toks, pos, {"CLASS"}) -> Call("parse_class_declaration", toks, pos)
      [] match(toks, pos, {"TRAIT"}) -> Call("parse_trait_declaration", toks, pos)
      [] match(toks, pos, {"RETURN"}) -> Call("parse_return_statement", toks, pos)
      [] match(toks, pos, {"IF"}) -> Call("parse_if_statement", toks, pos)
      [] match(toks, pos, {"WHILE"}) -> Call("parse_while_statement", toks, pos)
      [] match(toks, pos, {"FOR"}) -> Call("parse_for_statement", toks, pos)
      [] match(toks, pos, {"BREAK"}) -> Ok(BreakStatement, advance_token(toks, pos))
      [] match(toks, pos, {"CONTINUE"}) ->
            Ok(ContinueStatement, advance_token(toks, pos))
      [] match(toks, pos, {"PARALLEL"}) -> Call("parse_parallel_block", toks, pos)
      [] match(toks, pos, {"IMPORT", "FROM"}) -> Call("parse_import_statement", toks, pos)
      [] match(toks, pos, {"LBRACE"}) -> Call("parse_block", toks, pos)
      [] match(toks, pos, {"INT", "FLOAT", "STR", "BOOL", "AUTO"}) ->
            Call("parse_var_declaration", toks, pos)
      [] OTHER ->
            LET expr == Call("parse_expression", toks, pos) IN
            IF expr.ok
            THEN IF match(toks, expr.pos, {"ASSIGN", "PLUS_ASSIGN", "MINUS_ASSIGN"})
                 THEN LET op == current(toks, expr.pos).value
                          value == Call("parse_expression", toks, advance_token(toks, expr.pos))
                      IN  IF value.ok
                          THEN Ok(AssignmentStatement(expr.node, value.node, op),
                                  value.pos)
                          ELSE value
                 ELSE Ok(ExpressionStatement(expr.node), expr.pos)
            ELSE expr

\* The member loop of parse_class_declaration taking what is neither a
\* method nor a field for nothing
class_member_or_nothing(toks, pos) ==
    IF match(toks, pos, {"FUNC"})
    THEN Call("parse_function_declaration", toks, pos)
    ELSE IF match(toks, pos, {"INT", "FLOAT", "STR", "BOOL", "AUTO"})
         THEN Call("parse_var_declaration", toks, pos)
         ELSE Ok(NullNode, pos)

\* What one iteration of the member loop of parse_class_declaration
\* parses.
class_member(toks, pos) ==
    IF match(toks, pos, {"FUNC"})
    THEN Call("parse_function_declaration", toks, pos)
    ELSE Call("parse_var_declaration", toks, pos)

\* What one iteration of the case loop of parse_match_expression parses.
match_case(toks, pos) ==
    LET p == Call("parse_expression", toks, pos) IN
    IF p.ok
    THEN LET a == expect(toks, p.pos, "FAT_ARROW") IN
         IF a.ok THEN Call("parse_expression", toks, a.pos) ELSE a
    ELSE p

\* The method named `method`, called with the cursor at pos.
Call(method, toks, pos) ==
    CASE method = "parse_pipeline" -> parse_pipeline(toks, pos)
      [] method = "parse_expression" -> parse_expression(toks, pos)
      [] method = "parse_logical_or" -> parse_logical_or(toks, pos)
      [] method = "parse_logical_and" -> parse_logical_and(toks, pos)
      [] method = "parse_equality" -> parse_equality(toks, pos)
      [] method = "parse_comparison" -> parse_comparison(toks, pos)
      [] method = "parse_addition" -> parse_addition(toks, pos)
      [] method = "parse_multiplication" -> parse_multiplication(toks, pos)
      [] method = "parse_power" -> parse_power(toks, pos)
      [] method = "parse_unary" -> parse_unary(toks, pos)
      [] method = "parse_argument_list" -> parse_argument_list(toks, pos)
      [] method = "parse_postfix" -> parse_postfix(toks, pos)
      [] method = "parse_primary" -> parse_primary(toks, pos)
      [] method = "parse_match_expression" -> parse_match_expression(toks, pos)
      [] method = "parse_type" -> parse_type(toks, pos)
      [] method = "parse_parameter_list" -> parse_parameter_list(toks, pos)
      [] method = "parse_signature" -> parse_signature(toks, pos)
      [] method = "parse_function_declaration" -> parse_function_declaration(toks, pos)
      [] method = "parse_function_signature" -> parse_function_signature(toks, pos)
      [] method = "parse_var_declaration" -> parse_var_declaration(toks, pos)
      [] method = "parse_class_declaration" -> parse_class_declaration(toks, pos)
      [] method = "parse_trait_declaration" -> parse_trait_declaration(toks, pos)
      [] method = "parse_block" -> parse_block(toks, pos)
      [] method = "parse_return_statement" -> parse_return_statement(toks, pos)
      [] method = "parse_if_statement" -> parse_if_statement(toks, pos)
      [] method = "parse_while_statement" -> parse_while_statement(toks, pos)
      [] method = "parse_for_statement" -> parse_for_statement(toks, pos)
      [] method = "parse_parallel_block" -> parse_parallel_block(toks, pos)
      [] method = "parse_import_statement" -> parse_import_statement(toks, pos)
      [] method = "parse_lambda" -> parse_lambda(toks, pos)
      [] method = "parse_statement" -> parse_statement(toks, pos)
      [] method = "class_member" -> class_member(toks, pos)
      [] method = "match_case" -> match_case(toks, pos)

\* The statement loop of Parser.parse
RECURSIVE parse_loop(_, _, _)
parse_loop(toks, pos, statements) ==
    IF match(toks, pos, {"EOF"})
    THEN Ok(Program(statements), pos)
    ELSE LET r == Call("parse_statement", toks, pos) IN
         IF r.ok
         THEN parse_loop(toks, skip_newlines(toks, r.pos),
                         IF r.node # NullNode THEN Append(statements, r.node)
                         ELSE statements)
         ELSE r

\* Parser.parse, on a parser just constructed (pos = 0)
parse(toks) == parse_loop(toks, skip_newlines(toks, 0), <<>>)

\* ------------------------- the parser's runs ---------------------------

\* A token as the parser reads it; line and column only feed the text of
\* error messages.
Tk(type, value) == Token(type, value, "str", 1, 1)
TkNumber(value) == Token("NUMBER", value, "int", 1, 1)
TkEOF == Token("EOF", None, "NoneType", 1, 1)

\* The lexer is not part of a parser run: it has returned.
LexIdle ==
    /\ source = <<>>
    /\ lex = [pos |-> 0, line |-> 1, column |-> 1]
    /\ lexStatus = "returned"
    /\ lexError = NoError

\* Parser.__init__
NewParser == [status |-> "constructed", pos |-> 0, tree |-> NullNode, expected |-> ""]

\* What a call leaves behind: the tree returned, or the SyntaxError raised.
Finished(r) ==
    [status |-> IF r.ok THEN "returned" ELSE "raised", pos |-> r.pos,
     tree |-> r.node, expected |-> r.expected]

\* The tokens arbitrary token lists are made of.
TokenAlphabet ==
    {Tk("IDENTIFIER", "a"), TkNumber("1"), Tk("PLUS", "+"), Tk("MINUS", "-"),
     Tk("POWER", "**"), Tk("NOT", "not"), Tk("LPAREN", "("), Tk("RPAREN", ")"),
     Tk("LBRACE", "{"), Tk("RBRACE", "}"), Tk("NEWLINE", NL),
     Tk("SEMICOLON", ";"), Tk("ASSIGN", "="), Tk("RETURN", "return"),
     Tk("IF", "if"), Tk("AUTO", "auto")}

\* func f() -> int { auto x = 2 <sep> x = x + 3 <sep> return x }
FunctionF(sep) ==
    <<Tk("FUNC", "func"), Tk("IDENTIFIER", "f"), Tk("LPAREN", "("),
      Tk("RPAREN", ")"), Tk("ARROW", "->"), Tk("INT", "int"), Tk("LBRACE", "{"),
      Tk("AUTO", "auto"), Tk("IDENTIFIER", "x"), Tk("ASSIGN", "="), TkNumber("2"),
      sep,
      Tk("IDENTIFIER", "x"), Tk("ASSIGN", "="), Tk("IDENTIFIER", "x"),
      Tk("PLUS", "+"), TkNumber("3"),
      sep,
      Tk("RETURN", "return"), Tk("IDENTIFIER", "x"), Tk("RBRACE", "}"), TkEOF>>

\* The tokens of the end-to-end scenario whose statements are separated
\* by `;`, and of the same function with newlines instead.
ScenarioSemicolons == FunctionF(Tk("SEMICOLON", ";"))
ScenarioNewlines == FunctionF(Tk("NEWLINE", NL))

\* The tree the scenario function stands for.
FunctionFTree ==
    Program(<<FunctionDeclaration("f", <<>>, "int",
        Block(<<VarDeclaration("x", "auto", NumberLiteral("2", "int")),
                AssignmentStatement(Identifier("x"),
                    BinaryOp(Identifier("x"), "+", NumberLiteral("3", "int")), "="),
                ReturnStatement(Identifier("x"))>>),
        FALSE)>>)

\* The number of parentheses a token list opens: each one starts the
\* expression grammar again from parse_expression.
Nesting(ts) == Cardinality({i \in DOMAIN ts : ts[i].type = "LPAREN"})

ParseInit ==
    /\ LexIdle
    /\ \/ \E ts \in SeqsUpTo(TokenAlphabet, MaxTokens) :
            /\ Nesting(ts) <= MaxNesting
            /\ tokens = Append(ts, TkEOF)
       \/ tokens \in {ScenarioSemicolons, ScenarioNewlines}
    /\ parser = NewParser
    /\ AfterParseIdle

\* Parser(tokens).parse()
Parse ==
    /\ parser.status = "constructed"
    /\ parser' = Finished(parse(tokens))
    /\ UNCHANGED <<lexVars, afterParse>>

ParseNext == Parse

SpecParse == ParseInit /\ [][ParseNext]_vars

\* ---- operator chains: operand (operator operand)* ----

\* The binary operators of a chain: one or two of every precedence level.
ChainOps ==
    {Tk("OR", "or"), Tk("AND", "and"), Tk("EQ", "=="), Tk("LT", "<"),
     Tk("PLUS", "+"), Tk("MINUS", "-"), Tk("MULTIPLY", "*"), Tk("POWER", "**")}

\* The prefix operators an operand of a chain may carry.
ChainPrefixes == {Tk("NOT", "not"), Tk("MINUS", "-")}

OperandNames == <<"a", "b", "c", "d", "e", "f", "g", "h">>

\* The tokens of the chain with operators `ops`, whose operand number `at`
\* (0: none) carries the prefix operator `prefix`.
RECURSIVE ChainTokens(_, _, _, _)
ChainTokens(ops, at, prefix, k) ==
    LET operand == (IF at = k THEN <<prefix>> ELSE <<>>)
                   \o <<Tk("IDENTIFIER", OperandNames[k])>>
    IN  IF k > Len(ops) THEN operand \o <<TkEOF>>
        ELSE operand \o <<ops[k]>> \o ChainTokens(ops, at, prefix, k + 1)

ExprInit ==
    /\ LexIdle
    /\ \E ops \in SeqsUpTo(ChainOps, MaxOps) :
       \E at \in 0..(Len(ops) + 1) :
       \E prefix \in ChainPrefixes :
           tokens = ChainTokens(ops, at, prefix, 1)
    /\ parser = NewParser
    /\ AfterParseIdle

\* Parser(tokens).parse_expression()
ParseExpression ==
    /\ parser.status = "constructed"
    /\ parser' = Finished(parse_expression(tokens, 0))
    /\ UNCHANGED <<lexVars, afterParse>>

ExprNext == ParseExpression

SpecExpr == ExprInit /\ [][ExprNext]_vars

\* ---- primary expressions ----

\* Point { x = 1, y = a }
ObjectLiteralTokens ==
    <<Tk("IDENTIFIER", "Point"), Tk("LBRACE", "{"),
      Tk("IDENTIFIER", "x"), Tk("ASSIGN", "="), TkNumber("1"), Tk("COMMA", ","),
      Tk("IDENTIFIER", "y"), Tk("ASSIGN", "="), Tk("IDENTIFIER", "a"),
      Tk("RBRACE", "}"), TkEOF>>

PrimaryInit ==
    /\ LexIdle
    /\ \/ \E ts \in SeqsUpTo(TokenAlphabet, MaxTokens) :
            /\ Nesting(ts) <= MaxNesting
            /\ tokens = Append(ts, TkEOF)
       \/ tokens = ObjectLiteralTokens
    /\ parser = NewParser
    /\ AfterParseIdle

\* Parser(tokens).parse_primary()
ParsePrimary ==
    /\ parser.status = "constructed"
    /\ parser' = Finished(Call("parse_primary", tokens, 0))
    /\ UNCHANGED <<lexVars, afterParse>>

PrimaryNext == ParsePrimary

SpecPrimary == PrimaryInit /\ [][PrimaryNext]_vars

\* ---- one call of parse_statement, one iteration of a loop ----

\* The loops that parse statements, tasks, members, methods and cases.
Loops ==
    {"parse", "parse_block", "parse_parallel_block", "parse_class_declaration",
     "parse_trait_declaration", "parse_match_expression"}

\* The condition of the loop: `while not self.match(...)`.
loop_condition(loop, toks, pos) ==
    IF loop = "parse" THEN ~match(toks, pos, {"EOF"})
    ELSE ~match(toks, pos, {"RBRACE"})

\* The body of the loop, run once with the cursor at pos: what the
\* iteration parses, then self.skip_newlines().
loop_body(loop, toks, pos) ==
    LET r == Call(CASE loop \in {"parse", "parse_block"} -> "parse_statement"
                    [] loop = "parse_parallel_block" -> "parse_expression"
                    [] loop = "parse_class_declaration" -> "class_member"
                    [] loop = "parse_trait_declaration" -> "parse_function_signature"
                    [] loop = "parse_match_expression" -> "match_case",
                  toks, pos)
    IN  IF r.ok THEN Ok(r.node, skip_newlines(toks, r.pos)) ELSE r

\* The tokens the lists of the loops are made of.
LoopAlphabet ==
    {Tk("IDENTIFIER", "a"), TkNumber("1"), Tk("PLUS", "+"), Tk("LPAREN", "("),
     Tk("RPAREN", ")"), Tk("LBRACE", "{"), Tk("RBRACE", "}"), Tk("NEWLINE", NL),
     Tk("BREAK", "break"), Tk("FUNC", "func"), Tk("AUTO", "auto"),
     Tk("FAT_ARROW", "=>")}

\* class C { auto x <newline> func m() { } <newline> }
ClassTokens ==
    <<Tk("CLASS", "class"), Tk("IDENTIFIER", "C"), Tk("LBRACE", "{"),
      Tk("AUTO", "auto"), Tk("IDENTIFIER", "x"), Tk("NEWLINE", NL),
      Tk("FUNC", "func"), Tk("IDENTIFIER", "m"), Tk("LPAREN", "("),
      Tk("RPAREN", ")"), Tk("LBRACE", "{"), Tk("RBRACE", "}"),
      Tk("NEWLINE", NL), Tk("RBRACE", "}"), TkEOF>>

\* trait T { func m() <newline> func n() -> int }
TraitTokens ==
    <<Tk("TRAIT", "trait"), Tk("IDENTIFIER", "T"), Tk("LBRACE", "{"),
      Tk("FUNC", "func"), Tk("IDENTIFIER", "m"), Tk("LPAREN", "("),
      Tk("RPAREN", ")"), Tk("NEWLINE", NL),
      Tk("FUNC", "func"), Tk("IDENTIFIER", "n"), Tk("LPAREN", "("),
      Tk("RPAREN", ")"), Tk("ARROW", "->"), Tk("INT", "int"),
      Tk("RBRACE", "}"), TkEOF>>

\* match a { 1 => a <newline> a => 1 }
MatchTokens ==
    <<Tk("MATCH", "match"), Tk("IDENTIFIER", "a"), Tk("LBRACE", "{"),
      TkNumber("1"), Tk("FAT_ARROW", "=>"), Tk("IDENTIFIER", "a"),
      Tk("NEWLINE", NL),
      Tk("IDENTIFIER", "a"), Tk("FAT_ARROW", "=>"), TkNumber("1"),
      Tk("RBRACE", "}"), TkEOF>>

\* parallel { a <newline> 1 + a }
ParallelTokens ==
    <<Tk("PARALLEL", "parallel"), Tk("LBRACE", "{"), Tk("IDENTIFIER", "a"),
      Tk("NEWLINE", NL), TkNumber("1"), Tk("PLUS", "+"), Tk("IDENTIFIER", "a"),
      Tk("RBRACE", "}"), TkEOF>>

\* A parser with its cursor anywhere in the token list, about to call
\* parse_statement or inside one of the loops.
ProgressInit ==
    /\ LexIdle
    /\ \/ \E ts \in SeqsUpTo(LoopAlphabet, MaxTokens) :
            /\ Nesting(ts) <= MaxNesting
            /\ tokens = Append(ts, TkEOF)
       \/ tokens \in {ScenarioNewlines, ClassTokens, TraitTokens, MatchTokens,
                      ParallelTokens}
    /\ \E pos \in 0..(Len(tokens) - 1), loop \in Loops \cup {"parse_statement"} :
           parser = [status |-> "running", pos |-> pos, tree |-> NullNode,
                     expected |-> "", loop |-> loop, start |-> pos]
    /\ AfterParseIdle

\* What a call or an iteration leaves behind: the cursor where it stopped,
\* and the SyntaxError if it raised one.
Stepped(r, status) ==
    [parser EXCEPT !.status = IF r.ok THEN status ELSE "raised",
                   !.pos = r.pos, !.tree = r.node, !.expected = r.expected]

\* self.parse_statement(), with the cursor where it is
ParseStatementCall ==
    /\ parser.status = "running"
    /\ parser.loop = "parse_statement"
    /\ parser' = Stepped(Call("parse_statement", tokens, parser.pos), "returned")
    /\ UNCHANGED <<lexVars, afterParse>>

\* One iteration of the loop the parser is in: the condition of the loop
\* holds and its body runs.
LoopIteration ==
    /\ parser.status = "running"
    /\ parser.loop \in Loops
    /\ loop_condition(parser.loop, tokens, parser.pos)
    /\ parser' = Stepped(loop_body(parser.loop, tokens, parser.pos), "running")
    /\ UNCHANGED <<lexVars, afterParse>>

ProgressNext == ParseStatementCall \/ LoopIteration

SpecProgress == ProgressInit /\ [][ProgressNext]_vars

(***************************************************************************)
(*                             TYPE CHECKER                                *)
(***************************************************************************)
\* Python's None where a Type is optional.
NoType == [kind |-> "None"]

\* A Type object.  param_types is None outside function types (<<>> here).
Type(kind, name, element_type, param_types, return_type) ==
    [kind |-> kind, name |-> name, element_type |-> element_type,
     param_types |-> param_types, return_type |-> return_type]

INT_TYPE == Type("INT", "int", NoType, <<>>, NoType)
FLOAT_TYPE == Type("FLOAT", "float", NoType, <<>>, NoType)
STRING_TYPE == Type("STRING", "str", NoType, <<>>, NoType)
BOOL_TYPE == Type("BOOL", "bool", NoType, <<>>, NoType)
VOID_TYPE == Type("VOID", "void", NoType, <<>>, NoType)
NULL_TYPE == Type("NULL", "null", NoType, <<>>, NoType)
AUTO_TYPE == Type("AUTO", "auto", NoType, <<>>, NoType)

\* Type(TypeKind.ARRAY, name, element_type = t)
ArrayType(name, t) == Type("ARRAY", name, t, <<>>, NoType)
\* Type(TypeKind.FUNCTION, name, param_types = ps, return_type = r)
FunctionType(name, ps, r) == Type("FUNCTION", name, NoType, ps, r)
\* Type(TypeKind.CLASS, name)
ClassType(name) == Type("CLASS", name, NoType, <<>>, NoType)

\* Type.__eq__: kinds first; arrays by element type, functions by
\* parameter and return types, every other kind by name.  None equals
\* None only.
RECURSIVE Type__eq__(_, _)
Type__eq__(a, b) ==
    IF a.kind = "None" \/ b.kind = "None" THEN a.kind = b.kind
    ELSE IF a.kind # b.kind THEN FALSE
    ELSE IF a.kind = "ARRAY" THEN Type__eq__(a.element_type, b.element_type)
    ELSE IF a.kind = "FUNCTION"
         THEN /\ Len(a.param_types) = Len(b.param_types)
              /\ \A i \in DOMAIN a.param_types :
                     Type__eq__(a.param_types[i], b.param_types[i])
              /\ Type__eq__(a.return_type, b.return_type)
    ELSE a.name = b.name

\* ", ".join(str(p) for p in types[i..])
RECURSIVE Type__str__(_)
RECURSIVE JoinTypes(_, _)
JoinTypes(types, i) ==
    IF i > Len(types) THEN ""
    ELSE Type__str__(types[i]) \o (IF i < Len(types) THEN ", " ELSE "")
         \o JoinTypes(types, i + 1)

\* Type.__str__
Type__str__(t) ==
    IF t.kind = "None" THEN "None"
    ELSE IF t.kind = "ARRAY" THEN "[" \o Type__str__(t.element_type) \o "]"
    ELSE IF t.kind = "FUNCTION"
         THEN "(" \o JoinTypes(t.param_types, 1) \o ") -> "
              \o Type__str__(t.return_type)
    ELSE t.name

\* ---- TypeEnvironment: a chain of scopes, the current one last ----
EmptyDict == [n \in {} |-> NoType]

\* TypeEnvironment(parent)
NewScope == [variables |-> EmptyDict, functions |-> EmptyDict]

\* dict[name] = t
DictSet(d, name, t) ==
    [n \in DOMAIN d \cup {name} |-> IF n = name THEN t ELSE d[n]]

\* self.env.define_variable(name, var_type), on the current scope
define_variable(env, name, var_type) ==
    [env EXCEPT ![Len(env)].variables = DictSet(@, name, var_type)]

\* TypeEnvironment.define_function on scope number `at` of the chain
define_function(env, at, name, func_type) ==
    [env EXCEPT ![at].functions = DictSet(@, name, func_type)]

\* TypeEnvironment.get_variable: the innermost scope that binds name, from
\* scope `at` up the chain of parents; None when no scope does.
RECURSIVE get_variable(_, _, _)
get_variable(env, at, name) ==
    IF at = 0 THEN NoType
    ELSE IF name \in DOMAIN env[at].variables THEN env[at].variables[name]
    ELSE get_variable(env, at - 1, name)

\* TypeEnvironment.get_function
RECURSIVE get_function(_, _, _)
get_function(env, at, name) ==
    IF at = 0 THEN NoType
    ELSE IF name \in DOMAIN env[at].functions THEN env[at].functions[name]
    ELSE get_function(env, at - 1, name)

\* TypeChecker._setup_builtins: print, len, range, str, and range again
\* with two parameters, which replaces the first.
setup_builtins(env) ==
    LET e1 == define_function(env, 1, "print",
                  FunctionType("print", <<AUTO_TYPE>>, VOID_TYPE))
        e2 == define_function(e1, 1, "len",
                  FunctionType("len", <<ArrayType("array", AUTO_TYPE)>>, INT_TYPE))
        e3 == define_function(e2, 1, "range",
                  FunctionType("range", <<INT_TYPE>>, ArrayType("array", INT_TYPE)))
        e4 == define_function(e3, 1, "str",
                  FunctionType("str", <<AUTO_TYPE>>, STRING_TYPE))
    IN  define_function(e4, 1, "range",
            FunctionType("range", <<INT_TYPE, INT_TYPE>>,
                         ArrayType("array", INT_TYPE)))

\* error() replacing the list by the new message.
error_forgetting(errors, message) == <<message>>

\* TypeChecker.error, on the error list
error(errors, message) == Append(errors, message)

\* TypeChecker.parse_type_string
parse_type_string(type_str) ==
    CASE type_str = "int" -> INT_TYPE
      [] type_str = "float" -> FLOAT_TYPE
      [] type_str = "str" -> STRING_TYPE
      [] type_str = "bool" -> BOOL_TYPE
      [] type_str = "void" -> VOID_TYPE
      [] type_str = "auto" -> AUTO_TYPE
      [] OTHER -> ClassType(type_str)

\* can_assign also accepting a float where an int is wanted.
can_assign_narrowing(target, src) ==
    \/ target.kind = "AUTO"
    \/ Type__eq__(target, src)
    \/ src.kind = "NULL" /\ target.kind \in {"CLASS", "STRING", "ARRAY"}
    \/ target.kind = "FLOAT" /\ src.kind = "INT"
    \/ target.kind = "INT" /\ src.kind = "FLOAT"

\* TypeChecker.can_assign
can_assign(target, src) ==
    IF target.kind = "AUTO" THEN TRUE
    ELSE IF Type__eq__(target, src) THEN TRUE
    ELSE IF src.kind = "NULL"
         THEN target.kind \in {"CLASS", "STRING", "ARRAY"}
    ELSE IF target.kind = "FLOAT" /\ src.kind = "INT" THEN TRUE
    ELSE FALSE

\* What the checker holds during a traversal: env (the chain of scopes up
\* to self.env), errors, and typed, the type infer_type returned for each
\* node it was called on, in the order the calls returned.
NewTypeChecker ==
    [env |-> setup_builtins(<<NewScope>>), errors |-> <<>>, typed |-> <<>>]

\* infer_type returning `type`, and the checker as the call leaves it.
Inferred(type, tc) == [type |-> type, tc |-> tc]

\* self.error(message)
Error(tc, message) == [tc EXCEPT !.errors = error(@, message)]

\* [self.parse_type_string(t) for _, t in parameters]
ParameterTypes(parameters) ==
    [i \in DOMAIN parameters |-> parse_type_string(parameters[i][2])]

\* TypeChecker.infer_type
RECURSIVE infer_type(_, _)
infer_type(node, tc) ==
    LET r ==
        IF node.node = "NumberLiteral"
        THEN Inferred(IF node.pytype = "int" THEN INT_TYPE ELSE FLOAT_TYPE, tc)
        ELSE IF node.node = "StringLiteral" THEN Inferred(STRING_TYPE, tc)
        ELSE IF node.node = "BooleanLiteral" THEN Inferred(BOOL_TYPE, tc)
        ELSE IF node.node = "NullLiteral" THEN Inferred(NULL_TYPE, tc)
        ELSE IF node.node = "Identifier"
        THEN LET var_type == get_variable(tc.env, Len(tc.env), node.name) IN
             IF var_type.kind = "None"
             THEN Inferred(AUTO_TYPE,
                           Error(tc, "Variable indefinida: " \o node.name))
             ELSE Inferred(var_type, tc)
        ELSE IF node.node = "BinaryOp"
        THEN LET left == infer_type(node.left, tc)
                 right == infer_type(node.right, left.tc)
             IN  IF node.operator \in {"+", "-", "*", "/", "%", "**"}
                 THEN Inferred(IF left.type.kind = "FLOAT" \/ right.type.kind = "FLOAT"
                               THEN FLOAT_TYPE ELSE INT_TYPE, right.tc)
                 ELSE IF node.operator \in {"==", "!=", "<", ">", "<=", ">="}
                 THEN Inferred(BOOL_TYPE, right.tc)
                 ELSE IF node.operator \in {"and", "or"}
                 THEN Inferred(BOOL_TYPE, right.tc)
                 ELSE Inferred(AUTO_TYPE, right.tc)
        ELSE IF node.node = "UnaryOp"
        THEN LET operand == infer_type(node.operand, tc) IN
             IF node.operator = "not" THEN Inferred(BOOL_TYPE, operand.tc)
             ELSE IF node.operator = "-" THEN Inferred(operand.type, operand.tc)
             ELSE Inferred(AUTO_TYPE, operand.tc)
        ELSE IF node.node = "CallExpr"
        THEN IF node.callee.node = "Identifier"
             THEN LET func_type == get_function(tc.env, Len(tc.env), node.callee.name) IN
                  IF func_type.kind # "None"
                  THEN Inferred(func_type.return_type, tc)
                  ELSE Inferred(AUTO_TYPE, tc)
             ELSE Inferred(AUTO_TYPE, tc)
        ELSE IF node.node = "ArrayLiteral"
        THEN IF node.elements = <<>>
             THEN Inferred(ArrayType("array", AUTO_TYPE), tc)
             ELSE LET element == infer_type(node.elements[1], tc) IN
                  Inferred(ArrayType("array", element.type), element.tc)
        ELSE IF node.node = "LambdaExpr"
        THEN Inferred(FunctionType("lambda", ParameterTypes(node.parameters),
                          IF node.return_type = None THEN VOID_TYPE
                          ELSE parse_type_string(node.return_type)), tc)
        ELSE Inferred(AUTO_TYPE, tc)
    IN  Inferred(r.type, [r.tc EXCEPT !.typed = Append(@, <<node, r.type>>)])

\* The parameter loop of check_function: each parameter becomes a variable
\* of the function's scope.
RECURSIVE define_parameters(_, _, _)
define_parameters(env, parameters, i) ==
    IF i > Len(parameters) THEN env
    ELSE define_parameters(
             define_variable(env, parameters[i][1],
                             parse_type_string(parameters[i][2])),
             parameters, i + 1)

RECURSIVE check_statement(_, _)
RECURSIVE check_block_loop(_, _, _)

\* TypeChecker.check_block
check_block(block, tc) == check_block_loop(block.statements, 1, tc)

\* check_function registering the function once its body is checked
check_function_registered_late(func_decl, tc) ==
    LET old_env == Len(tc.env)
        func_env == define_parameters(Append(tc.env, NewScope),
                                      func_decl.parameters, 1)
        func_type == FunctionType(func_decl.name,
                                  ParameterTypes(func_decl.parameters),
                                  parse_type_string(func_decl.return_type))
        body == check_block(func_decl.body, [tc EXCEPT !.env = func_env])
    IN  [body EXCEPT !.env = define_function(SubSeq(@, 1, old_env), old_env,
                                             func_decl.name, func_type)]

\* TypeChecker.check_function: a new scope whose parent is the current
\* one, the function registered in the parent, the body checked, the
\* parent made current again.
check_function(func_decl, tc) ==
    LET old_env == Len(tc.env)
        func_env == define_parameters(Append(tc.env, NewScope),
                                      func_decl.parameters, 1)
        func_type == FunctionType(func_decl.name,
                                  ParameterTypes(func_decl.parameters),
                                  parse_type_string(func_decl.return_type))
        body == check_block(func_decl.body,
                    [tc EXCEPT !.env = define_function(func_env, old_env,
                                                       func_decl.name, func_type)])
    IN  [body EXCEPT !.env = SubSeq(@, 1, old_env)]

\* The condition of an if or a while inferred, whatever its type.
check_condition_of_any_type(condition, tc, keyword) ==
    infer_type(condition, tc).tc

\* The condition of an if or a while: its type must be bool.
check_condition(condition, tc, keyword) ==
    LET cond == infer_type(condition, tc) IN
    IF cond.type.kind # "BOOL"
    THEN Error(cond.tc, "La condición del " \o keyword \o " debe ser bool, no "
                        \o Type__str__(cond.type))
    ELSE cond.tc

\* TypeChecker.check_statement.  A statement of a kind no branch names (a
\* Block among them) is left unchecked.
check_statement(stmt, tc) ==
    IF stmt.node = "VarDeclaration"
    THEN IF stmt.initializer.node # "None"
         THEN LET init == infer_type(stmt.initializer, tc) IN
              IF stmt.var_type # "" /\ stmt.var_type # "auto"
              THEN LET declared_type == parse_type_string(stmt.var_type)
                       tc1 == IF ~can_assign(declared_type, init.type)
                              THEN Error(init.tc, "No se puede asignar "
                                         \o Type__str__(init.type) \o " a "
                                         \o Type__str__(declared_type))
                              ELSE init.tc
                   IN  [tc1 EXCEPT !.env = define_variable(@, stmt.name, declared_type)]
              ELSE [init.tc EXCEPT !.env = define_variable(@, stmt.name, init.type)]
         ELSE IF stmt.var_type # ""
              THEN [tc EXCEPT !.env = define_variable(@, stmt.name,
                                          parse_type_string(stmt.var_type))]
              ELSE tc
    ELSE IF stmt.node = "FunctionDeclaration" THEN check_function(stmt, tc)
    ELSE IF stmt.node = "AssignmentStatement"
    THEN LET target == infer_type(stmt.target, tc)
             value == infer_type(stmt.value, target.tc)
         IN  IF ~can_assign(target.type, value.type)
             THEN Error(value.tc, "No se puede asignar " \o Type__str__(value.type)
                                  \o " a " \o Type__str__(target.type))
             ELSE value.tc
    ELSE IF stmt.node = "ExpressionStatement"
    THEN infer_type(stmt.expression, tc).tc
    ELSE IF stmt.node = "ReturnStatement"
    THEN IF stmt.value.node # "None" THEN infer_type(stmt.value, tc).tc ELSE tc
    ELSE IF stmt.node = "IfStatement"
    THEN LET then_branch == check_statement(stmt.then_branch,
                                check_condition(stmt.condition, tc, "if"))
         IN  IF stmt.else_branch.node # "None"
             THEN check_statement(stmt.else_branch, then_branch)
             ELSE then_branch
    ELSE IF stmt.node = "WhileStatement"
    THEN check_statement(stmt.body, check_condition(stmt.condition, tc, "while"))
    ELSE tc

\* for stmt in statements[i..]: self.check_statement(stmt)
check_block_loop(statements, i, tc) ==
    IF i > Len(statements) THEN tc
    ELSE check_block_loop(statements, i + 1, check_statement(statements[i], tc))

\* TypeChecker.check_program on a checker just constructed: whether the
\* error list is empty after the traversal.
check_program(program) ==
    Len(check_block_loop(program.statements, 1, NewTypeChecker).errors) = 0

\* ------------------------- can_assign, called --------------------------

\* The types can_assign is called on: the primitive types, class types,
\* array types (two of them differing in name only) and function types
\* (two of them differing in name only).
TypeUniverse ==
    LET primitive == {INT_TYPE, FLOAT_TYPE, STRING_TYPE, BOOL_TYPE, VOID_TYPE,
                      NULL_TYPE, AUTO_TYPE}
        class == {ClassType("Circle"), ClassType("Shape"), ClassType("int")}
        array == {ArrayType("array", t) : t \in {INT_TYPE, FLOAT_TYPE, AUTO_TYPE}}
                 \cup {ArrayType("list", INT_TYPE),
                       ArrayType("array", ArrayType("array", INT_TYPE))}
        function == {FunctionType("print", <<AUTO_TYPE>>, VOID_TYPE),
                     FunctionType("lambda", <<AUTO_TYPE>>, VOID_TYPE),
                     FunctionType("lambda", <<>>, VOID_TYPE),
                     FunctionType("range", <<INT_TYPE, INT_TYPE>>,
                                  ArrayType("array", INT_TYPE))}
    IN  primitive \cup class \cup array \cup function

\* No tokens have been produced and no Parser constructed.
ParserIdle == tokens = <<>> /\ parser = NoParser

AssignInit ==
    /\ LexIdle
    /\ ParserIdle
    /\ \E target \in TypeUniverse, src \in TypeUniverse :
           assign = [status |-> "called", target |-> target, source |-> src,
                     result |-> FALSE]
    /\ checker = NoChecker
    /\ lowerer = NoLowerer
    /\ cli = NoCli

\* TypeChecker().can_assign(target, source)
CanAssign ==
    /\ assign.status = "called"
    /\ assign' = [assign EXCEPT !.status = "returned",
                                !.result = can_assign(assign.target, assign.source)]
    /\ UNCHANGED <<lexVars, parser, checker, lowerer, cli>>

AssignNext == CanAssign

SpecAssign == AssignInit /\ [][AssignNext]_vars

\* ------------------------- check_program, run --------------------------

\* bool b = 5: an int where a bool is declared
BoolB5 == VarDeclaration("b", "bool", NumberLiteral("5", "int"))
\* a use of `u`, which no statement declares
UseOfU == ExpressionStatement(Identifier("u"))

\* func f(n: int) -> int { return n * f(n) }
DeclareF ==
    FunctionDeclaration("f", <<<<"n", "int">>>>, "int",
        Block(<<ReturnStatement(BinaryOp(Identifier("n"), "*",
                     CallExpr(Identifier("f"), <<Identifier("n")>>)))>>), FALSE)
\* f(): no argument for the one parameter of f
CallFNoArgument == ExpressionStatement(CallExpr(Identifier("f"), <<>>))
\* f("s"): a str where f declares an int
CallFString == ExpressionStatement(CallExpr(Identifier("f"), <<StringLiteral("s")>>))

\* The statements programs are made of.
Statements ==
    {BoolB5, UseOfU,
     VarDeclaration("x", "auto", NumberLiteral("1", "int")),
     VarDeclaration("y", "float", Identifier("x")),
     VarDeclaration("n", "int", NumberLiteral("2.5", "float")),
     VarDeclaration("z", "auto", NullNode),
     VarDeclaration("s", "str", NullLiteral),
     AssignmentStatement(Identifier("x"), BooleanLiteral("True"), "="),
     AssignmentStatement(Identifier("x"),
         BinaryOp(Identifier("x"), "+", NumberLiteral("1", "int")), "="),
     AssignmentStatement(Identifier("z"), UnaryOp("-", Identifier("x")), "+="),
     ExpressionStatement(Identifier("z")),
     ExpressionStatement(CallExpr(Identifier("foo"), <<>>)),
     ExpressionStatement(CallExpr(Identifier("print"), <<Identifier("u")>>)),
     ExpressionStatement(CallExpr(Identifier("f"), <<NumberLiteral("1", "int")>>)),
     ExpressionStatement(IndexExpr(Identifier("x"), NumberLiteral("0", "int"))),
     ExpressionStatement(MemberAccess(Identifier("x"), "r")),
     ExpressionStatement(PipelineExpr(Identifier("x"), <<Identifier("f")>>)),
     ExpressionStatement(MatchExpr(Identifier("x"),
         <<<<NumberLiteral("1", "int"), NumberLiteral("2", "int")>>>>)),
     ExpressionStatement(AsyncAwait(Identifier("x"))),
     ExpressionStatement(ArrayLiteral(<<>>)),
     ExpressionStatement(ArrayLiteral(<<StringLiteral("s"), Identifier("u")>>)),
     ExpressionStatement(LambdaExpr(<<<<"a", "auto">>>>, Identifier("a"), None)),
     ExpressionStatement(BinaryOp(UnaryOp("not", Identifier("x")), "and",
                                  BinaryOp(Identifier("x"), "<", Identifier("y")))),
     ReturnStatement(NullNode),
     ReturnStatement(Identifier("x")),
     IfStatement(BooleanLiteral("True"), Block(<<BoolB5>>), NullNode),
     IfStatement(NumberLiteral("1", "int"), Block(<<>>), Block(<<UseOfU>>)),
     IfStatement(Identifier("u"), Block(<<>>),
         IfStatement(Identifier("x"), Block(<<BoolB5>>), NullNode)),
     WhileStatement(BooleanLiteral("True"), Block(<<UseOfU>>)),
     WhileStatement(Identifier("x"), Block(<<>>)),
     DeclareF, CallFNoArgument, CallFString,
     FunctionDeclaration("g", <<>>, "void", Block(<<BoolB5, UseOfU>>), FALSE),
     Block(<<BoolB5>>),
     ForStatement("i", CallExpr(Identifier("range"), <<NumberLiteral("3", "int")>>),
                  Block(<<UseOfU>>)),
     BreakStatement}

\* TypeChecker() about to run check_program(program): the traversal is at
\* top-level statement number `next`.
NewChecker(program) ==
    [status |-> "checking", program |-> program, next |-> 1,
     tc |-> NewTypeChecker, result |-> FALSE]

CheckInit ==
    /\ LexIdle
    /\ ParserIdle
    /\ assign = NoCall
    /\ \E statements \in SeqsUpTo(Statements, MaxStatements) :
           checker = NewChecker(Program(statements))
    /\ lowerer = NoLowerer
    /\ cli = NoCli

\* One iteration of the loop of check_program: check_statement(stmt)
CheckStatement ==
    /\ checker.status = "checking"
    /\ checker.next <= Len(checker.program.statements)
    /\ checker' = [checker EXCEPT
           !.tc = check_statement(checker.program.statements[checker.next], @),
           !.next = @ + 1]
    /\ UNCHANGED <<lexVars, parser, assign, lowerer, cli>>

\* The loop is over: return len(self.errors) == 0
CheckProgramReturn ==
    /\ checker.status = "checking"
    /\ checker.next > Len(checker.program.statements)
    /\ checker' = [checker EXCEPT !.status = "returned",
                                  !.result = (Len(checker.tc.errors) = 0)]
    /\ UNCHANGED <<lexVars, parser, assign, lowerer, cli>>

CheckNext == CheckStatement \/ CheckProgramReturn

SpecCheck == CheckInit /\ [][CheckNext]_vars

\* ------------------- check_program, run a second time -------------------

\* auto x = 1, and auto x = 2.5: the same name with another type
DeclareXInt == VarDeclaration("x", "auto", NumberLiteral("1", "int"))
DeclareXFloat == VarDeclaration("x", "auto", NumberLiteral("2.5", "float"))
\* auto a = g()
DeclareAFromG == VarDeclaration("a", "auto", CallExpr(Identifier("g"), <<>>))
\* func g() -> int { return 1 }
DeclareG ==
    FunctionDeclaration("g", <<>>, "int",
        Block(<<ReturnStatement(NumberLiteral("1", "int"))>>), FALSE)

\* The statements of the programs checked twice.
RecheckStatements ==
    Statements \cup {DeclareXInt, DeclareXFloat, DeclareAFromG, DeclareG}

\* A TypeChecker about to run check_program(program) for the first time;
\* `first` will keep the checker as the first pass leaves it.
RecheckInit ==
    /\ LexIdle
    /\ ParserIdle
    /\ assign = NoCall
    /\ \E statements \in SeqsUpTo(RecheckStatements, MaxStatements) :
           checker = [status |-> "checking", program |-> Program(statements),
                      next |-> 1, tc |-> NewTypeChecker, result |-> FALSE,
                      pass |-> 1, first |-> NewTypeChecker]
    /\ lowerer = NoLowerer
    /\ cli = NoCli

\* check_program(program) called again on the same TypeChecker: self.env and
\* self.errors are what the first call left.
CheckProgramAgain ==
    /\ checker.status = "returned"
    /\ checker.pass = 1
    /\ checker' = [checker EXCEPT !.status = "checking", !.next = 1, !.pass = 2,
                                  !.first = checker.tc, !.tc.typed = <<>>]
    /\ UNCHANGED <<lexVars, parser, assign, lowerer, cli>>

RecheckNext == CheckStatement \/ CheckProgramReturn \/ CheckProgramAgain

SpecRecheck == RecheckInit /\ [][RecheckNext]_vars

(***************************************************************************)
(*                               LOWERING                                  *)
(* src/backend/llvm_compiler.py drives llvmlite's ir.Module, ir.Function   *)
(* and ir.IRBuilder.  The llvmlite objects are modelled by what the        *)
(* compiler calls on them: a module is its functions and globals, a        *)
(* function its blocks, a block its instructions in order.                 *)
(***************************************************************************)

\* The llvmlite types LLVMCompiler.__init__ keeps, by their text.
i32 == "i32"
i64 == "i64"
f64 == "double"
i1 == "i1"
void == "void"
i8_ptr == "i8*"

\* typ.as_pointer(), and ptr.type.pointee
as_pointer(typ) == typ \o "*"
pointee(typ) == CHOOSE t \in {i32, i64, f64, i1, "i8"} : as_pointer(t) = typ

\* An llvmlite value.  A constant is told by its text; an instruction, a
\* block, a function or a global variable is told by `id`: the position of a
\* block in its function and of a function in its module, the identity of
\* the Python object for instructions and global variables.  `text` is the
\* name asked for, before llvmlite makes it unique within the function.
Value(type, kind, text, id) ==
    [type |-> type, kind |-> kind, text |-> text, id |-> id]

\* ir.Constant(typ, constant)
Constant(typ, constant) == Value(typ, "constant", constant, 0)

\* Python's None where a value is expected.
NoValue == Value(void, "None", "", 0)

\* ir.Function(module, ir.FunctionType(return_type, args, var_arg), name)
Function(name, return_type, args, var_arg) ==
    [name |-> name, return_type |-> return_type, args |-> args,
     var_arg |-> var_arg, blocks |-> <<>>]

\* self.builder is None / self.current_function is None
NoBuilder == [function |-> 0, block |-> 0]

\* The byte 0 that ends a C string.
NUL == "\\0"

\* LLVMCompiler(): the module with the declarations of _setup_builtins, no
\* builder, empty symbol tables.  `objects` counts the Python objects made
\* so far, `raised` is the exception that ended the lowering, `value` is
\* what the last compile_* call returned.
NewCompiler ==
    [module |-> [functions |-> <<Function("printf", i32, <<i8_ptr>>, TRUE),
                                 Function("malloc", i8_ptr, <<i64>>, FALSE),
                                 Function("free", void, <<i8_ptr>>, FALSE)>>,
                 globals |-> <<>>],
     builder |-> NoBuilder,
     variables |-> EmptyDict,
     functions |-> EmptyDict,
     current_function |-> 0,
     objects |-> 1,
     raised |-> None,
     value |-> NoValue]

\* An exception leaves the compile_* call that is running.
raises(c, exception) == [c EXCEPT !.raised = exception, !.value = NoValue]

\* self.builder.block
builder_block(c) == c.module.functions[c.builder.function].blocks[c.builder.block]

\* An IRBuilder method that makes an instruction: it is appended to the
\* builder's block, after whatever the block already holds, and is the
\* value returned.  On self.builder = None the attribute access raises.
insert(c, opname, type, name, operands) ==
    IF c.builder = NoBuilder THEN raises(c, "AttributeError")
    ELSE LET instr == [id |-> c.objects, opname |-> opname, type |-> type,
                       name |-> name, operands |-> operands]
         IN  [c EXCEPT !.module.functions[c.builder.function]
                         .blocks[c.builder.block].instructions = Append(@, instr),
                       !.objects = @ + 1,
                       !.value = Value(type, "instruction", name, c.objects)]

\* IRBuilder.ret, ret_void, branch, cbranch: llvmlite asserts that the block
\* is not terminated yet, then inserts the terminator.
set_terminator(c, opname, operands) ==
    IF c.builder = NoBuilder THEN raises(c, "AttributeError")
    ELSE IF builder_block(c).is_terminated THEN raises(c, "AssertionError")
    ELSE [insert(c, opname, void, "", operands) EXCEPT
              !.module.functions[c.builder.function]
                .blocks[c.builder.block].is_terminated = TRUE]

\* IRBuilder.add, sub, mul, sdiv, srem, and_, or_, fadd, fsub, fmul, fdiv:
\* llvmlite refuses operands of different types.
binop(c, opname, lhs, rhs) ==
    IF c.builder = NoBuilder \/ lhs = NoValue \/ rhs = NoValue
    THEN raises(c, "AttributeError")
    ELSE IF lhs.type # rhs.type THEN raises(c, "ValueError")
    ELSE insert(c, opname, lhs.type, "", <<lhs, rhs>>)

\* IRBuilder.store: llvmlite refuses a value that is not of the slot's type.
store(c, value, ptr) ==
    IF c.builder = NoBuilder \/ value = NoValue THEN raises(c, "AttributeError")
    ELSE IF ptr.type # as_pointer(value.type) THEN raises(c, "TypeError")
    ELSE insert(c, "store", void, "", <<value, ptr>>)

\* IRBuilder.call: llvmlite compares the arguments with the parameters the
\* function type declares, one by one; arguments beyond them are taken as
\* they are.
call(c, fn, args) ==
    LET func == c.module.functions[fn] IN
    IF c.builder = NoBuilder THEN raises(c, "AttributeError")
    ELSE IF Len(args) < Len(func.args) THEN raises(c, "IndexError")
    ELSE IF \E i \in 1..Len(func.args) : args[i] = NoValue
    THEN raises(c, "AttributeError")
    ELSE IF \E i \in 1..Len(func.args) : args[i].type # func.args[i]
    THEN raises(c, "TypeError")
    ELSE insert(c, "call", func.return_type, "",
                <<Value(func.return_type, "function", func.name, fn)>> \o args)

\* self.current_function.append_basic_block(name): the new block is the
\* value returned.
append_basic_block(c, name) ==
    IF c.current_function = 0 THEN raises(c, "AttributeError")
    ELSE LET block == [name |-> name, instructions |-> <<>>, is_terminated |-> FALSE]
             n == Len(c.module.functions[c.current_function].blocks) + 1
         IN  [c EXCEPT !.module.functions[c.current_function].blocks = Append(@, block),
                       !.value = Value("label", "block", name, n)]

\* self.builder.position_at_end(block)
position_at_end(c, block) ==
    IF c.builder = NoBuilder THEN raises(c, "AttributeError")
    ELSE [c EXCEPT !.builder.block = block.id]

\* LLVMCompiler.get_llvm_type, on the kind of a Vela type.  An array type
\* lowers to a pointer to its element type.
RECURSIVE get_llvm_type(_)
get_llvm_type(vela_type) ==
    CASE vela_type.kind = "INT" -> i64
      [] vela_type.kind = "FLOAT" -> f64
      [] vela_type.kind = "BOOL" -> i1
      [] vela_type.kind = "VOID" -> void
      [] vela_type.kind = "STRING" -> i8_ptr
      [] vela_type.kind = "ARRAY" -> as_pointer(get_llvm_type(vela_type.element_type))
      [] OTHER -> i64

\* ir.GlobalVariable(self.module, typ, name) with its initializer, internal
\* linkage, constant.  The name is a prefix followed by id(...) of a Python
\* object; the array type [n x i8] is told by the bytes.
add_global(c, prefix, id, initializer) ==
    [c EXCEPT !.module.globals =
         Append(@, [prefix |-> prefix, id |-> id, linkage |-> "internal",
                    global_constant |-> TRUE, initializer |-> initializer])]

\* self.builder.bitcast(global, self.i8_ptr), on the global just added
bitcast_global(c) ==
    LET g == c.module.globals[Len(c.module.globals)] IN
    insert(c, "bitcast", i8_ptr, "", <<Value("[n x i8]*", "global", g.prefix, g.id)>>)

\* The instruction compile_expression picks for a binary operator, from the
\* type of the left operand alone; "" where the operator has no branch.
binary_opname(operator, left) ==
    CASE operator = "+" -> IF left.type = f64 THEN "fadd" ELSE "add"
      [] operator = "-" -> IF left.type = f64 THEN "fsub" ELSE "sub"
      [] operator = "*" -> IF left.type = f64 THEN "fmul" ELSE "mul"
      [] operator = "/" -> IF left.type = f64 THEN "fdiv" ELSE "sdiv"
      [] operator = "%" -> "srem"
      [] operator = "**" -> "mul"
      [] operator \in {"==", "!=", "<", ">", "<=", ">="} ->
            IF left.type = f64 THEN "fcmp_ordered" ELSE "icmp_signed"
      [] operator = "and" -> "and_"
      [] operator = "or" -> "or_"
      [] OTHER -> ""

RECURSIVE Compile(_, _, _)

\* args = [self.compile_expression(arg) for arg in expr.arguments]
RECURSIVE compile_arguments(_, _, _, _)
compile_arguments(arguments, i, args, c) ==
    IF i > Len(arguments) THEN [c EXCEPT !.value = args]
    ELSE LET a == Compile("compile_expression", arguments[i], c) IN
         IF a.raised # None THEN a
         ELSE compile_arguments(arguments, i + 1, Append(args, a.value), a)

\* LLVMCompiler.compile_print
compile_print(args, c) ==
    IF Len(args) = 0 THEN [c EXCEPT !.value = NoValue]
    ELSE IF args[1].node = "StringLiteral"
    THEN LET id == c.objects
             g1 == add_global([c EXCEPT !.objects = @ + 1], "str_", id,
                              args[1].value \o NL \o NUL)
             string_ptr == bitcast_global(g1)
         IN  IF string_ptr.raised # None THEN string_ptr
             ELSE LET g2 == add_global(string_ptr, "fmt_", id, "%s" \o NUL)
                      fmt_ptr == bitcast_global(g2)
                  IN  IF fmt_ptr.raised # None THEN fmt_ptr
                      ELSE call(fmt_ptr, 1, <<fmt_ptr.value, string_ptr.value>>)
    ELSE LET a == Compile("compile_expression", args[1], c)
             arg == a.value
         IN  IF a.raised # None THEN a
             ELSE IF arg = NoValue THEN raises(a, "AttributeError")
             ELSE LET fmt == IF arg.type = i64 \/ arg.type = i32
                             THEN "%ld" \o NL \o NUL
                             ELSE IF arg.type = f64 THEN "%f" \o NL \o NUL
                             ELSE "%p" \o NL \o NUL
                      fresh == arg.kind # "instruction"
                      id == IF fresh THEN a.objects ELSE arg.id
                      g == add_global([a EXCEPT !.objects = IF fresh THEN @ + 1 ELSE @],
                                      "fmt_", id, fmt)
                      fmt_ptr == bitcast_global(g)
                  IN  IF fmt_ptr.raised # None THEN fmt_ptr
                      ELSE call(fmt_ptr, 1, <<fmt_ptr.value, arg>>)

\* LLVMCompiler.compile_expression: c.value is the value returned.
compile_expression(expr, c) ==
    CASE expr.node = "NumberLiteral" ->
            [c EXCEPT !.value = IF expr.pytype = "int"
                                THEN Constant(i64, expr.value)
                                ELSE Constant(f64, expr.value)]
      [] expr.node = "BooleanLiteral" ->
            [c EXCEPT !.value = Constant(i1, IF expr.value = "True" THEN "1" ELSE "0")]
      [] expr.node = "Identifier" ->
            IF expr.name \notin DOMAIN c.variables THEN raises(c, "NameError")
            ELSE LET ptr == c.variables[expr.name] IN
                 insert(c, "load", pointee(ptr.type), expr.name, <<ptr>>)
      [] expr.node = "BinaryOp" ->
            LET l == Compile("compile_expression", expr.left, c) IN
            IF l.raised # None THEN l
            ELSE LET r == Compile("compile_expression", expr.right, l)
                     opname == binary_opname(expr.operator, l.value)
                 IN  IF r.raised # None THEN r
                     ELSE IF l.value = NoValue THEN raises(r, "AttributeError")
                     ELSE IF opname = "" THEN [r EXCEPT !.value = Constant(i64, "0")]
                     ELSE IF opname \in {"fcmp_ordered", "icmp_signed"}
                     THEN insert(r, opname \o " " \o expr.operator, i1, "",
                                 <<l.value, r.value>>)
                     ELSE binop(r, opname, l.value, r.value)
      [] expr.node = "UnaryOp" ->
            LET o == Compile("compile_expression", expr.operand, c)
                operand == o.value
            IN  IF o.raised # None THEN o
                ELSE IF expr.operator = "-"
                THEN IF operand = NoValue THEN raises(o, "AttributeError")
                     ELSE IF operand.type = f64
                     THEN binop(o, "fsub", Constant(f64, "0"), operand)
                     ELSE binop(o, "sub", Constant(i64, "0"), operand)
                ELSE IF expr.operator = "not"
                THEN IF operand = NoValue THEN raises(o, "AttributeError")
                     ELSE binop(o, "xor", operand, Constant(operand.type, "-1"))
                ELSE [o EXCEPT !.value = Constant(i64, "0")]
      [] expr.node = "CallExpr" ->
            IF expr.callee.node # "Identifier"
            THEN [c EXCEPT !.value = Constant(i64, "0")]
            ELSE IF expr.callee.name = "print" THEN compile_print(expr.arguments, c)
            ELSE IF expr.callee.name \notin DOMAIN c.functions
            THEN raises(c, "NameError")
            ELSE LET args == compile_arguments(expr.arguments, 1, <<>>, c) IN
                 IF args.raised # None THEN args
                 ELSE call(args, c.functions[expr.callee.name], args.value)
      [] OTHER -> [c EXCEPT !.value = Constant(i64, "0")]

\* LLVMCompiler.compile_block: the statements in order; an exception ends
\* the loop.
RECURSIVE compile_block_loop(_, _, _)
compile_block_loop(statements, i, c) ==
    IF i > Len(statements) \/ c.raised # None THEN c
    ELSE compile_block_loop(statements, i + 1, Compile("compile_statement", statements[i], c))

compile_block(block, c) == compile_block_loop(block.statements, 1, c)

\* The loop of compile_function over the parameters: a stack slot for each,
\* holding the incoming argument.
RECURSIVE bind_parameters(_, _, _)
bind_parameters(parameters, i, c) ==
    IF i > Len(parameters) THEN c
    ELSE LET param_name == parameters[i][1]
             param == Value(i64, "argument", param_name, i)
             a == insert(c, "alloca", as_pointer(param.type), param_name, <<>>)
             ptr == a.value
             s == store(a, param, ptr)
         IN  bind_parameters(parameters, i + 1,
                             [s EXCEPT !.variables = DictSet(@, param_name, ptr)])

\* LLVMCompiler.compile_function
compile_function(func, c) ==
    LET param_types == [i \in 1..Len(func.parameters) |-> get_llvm_type(INT_TYPE)]
        return_type == get_llvm_type(IF func.return_type = "int"
                                     THEN INT_TYPE ELSE VOID_TYPE)
        fn == Len(c.module.functions) + 1
        entry == [name |-> "entry", instructions |-> <<>>, is_terminated |-> FALSE]
        llvm_func == [Function(func.name, return_type, param_types, FALSE)
                          EXCEPT !.blocks = <<entry>>]
    IN  IF \E i \in DOMAIN c.module.functions :
               c.module.functions[i].name = func.name
        THEN raises(c, "DuplicatedNameError")
        ELSE LET c1 == [c EXCEPT !.module.functions = Append(@, llvm_func),
                                 !.builder = [function |-> fn, block |-> 1],
                                 !.current_function = fn,
                                 !.functions = DictSet(@, func.name, fn)]
                 body == Compile("compile_block", func.body,
                                 bind_parameters(func.parameters, 1, c1))
             IN  IF body.raised # None THEN body
                 ELSE IF body.builder = NoBuilder THEN raises(body, "AttributeError")
                 ELSE LET r == IF builder_block(body).is_terminated THEN body
                               ELSE IF return_type = void
                               THEN set_terminator(body, "ret_void", <<>>)
                               ELSE set_terminator(body, "ret",
                                                   <<Constant(return_type, "0")>>)
                      IN  [r EXCEPT !.builder = NoBuilder, !.current_function = 0]

\* LLVMCompiler.compile_var_declaration: the slot is allocated where the
\* builder stands, always as an i64.
compile_var_declaration(var, c) ==
    IF c.builder = NoBuilder THEN c
    ELSE LET a == insert(c, "alloca", as_pointer(i64), var.name, <<>>)
             ptr == a.value
         IN  IF var.initializer # NullNode
             THEN LET v == Compile("compile_expression", var.initializer, a) IN
                  IF v.raised # None THEN v
                  ELSE LET s == store(v, v.value, ptr) IN
                       IF s.raised # None THEN s
                       ELSE [s EXCEPT !.variables = DictSet(@, var.name, ptr)]
             ELSE [a EXCEPT !.variables = DictSet(@, var.name, ptr)]

\* LLVMCompiler.compile_assignment: the operator of the assignment is not
\* read.
compile_assignment(stmt, c) ==
    IF stmt.target.node # "Identifier" THEN raises(c, "NotImplementedError")
    ELSE IF stmt.target.name \notin DOMAIN c.variables THEN raises(c, "NameError")
    ELSE LET v == Compile("compile_expression", stmt.value, c) IN
         IF v.raised # None THEN v
         ELSE store(v, v.value, c.variables[stmt.target.name])

\* LLVMCompiler.compile_return
compile_return(ret, c) ==
    IF ret.value # NullNode
    THEN LET v == Compile("compile_expression", ret.value, c) IN
         IF v.raised # None THEN v
         ELSE set_terminator(v, "ret", IF v.value = NoValue THEN <<>> ELSE <<v.value>>)
    ELSE set_terminator(c, "ret_void", <<>>)

\* if not self.builder.block.is_terminated: self.builder.branch(target)
branch_unless_terminated(c, target) ==
    IF c.raised # None THEN c
    ELSE IF c.builder = NoBuilder THEN raises(c, "AttributeError")
    ELSE IF builder_block(c).is_terminated THEN c
    ELSE set_terminator(c, "branch", <<target>>)

\* LLVMCompiler.compile_if
compile_if(if_stmt, c) ==
    LET k == Compile("compile_expression", if_stmt.condition, c)
        condition == k.value
        t == append_basic_block(k, "if.then")
        then_block == t.value
        has_else == if_stmt.else_branch # NullNode
        e == IF has_else THEN append_basic_block(t, "if.else") ELSE t
        else_block == e.value
        m == append_basic_block(e, "if.end")
        merge_block == m.value
        b == set_terminator(m, "cbranch",
                 <<condition, then_block,
                   IF has_else THEN else_block ELSE merge_block>>)
    IN  IF k.raised # None THEN k
        ELSE IF t.raised # None THEN t
        ELSE IF b.raised # None THEN b
        ELSE LET th == branch_unless_terminated(
                           Compile("compile_statement", if_stmt.then_branch,
                                             position_at_end(b, then_block)),
                           merge_block)
                 el == IF has_else
                       THEN branch_unless_terminated(
                                Compile("compile_statement", if_stmt.else_branch,
                                                  position_at_end(th, else_block)),
                                merge_block)
                       ELSE th
             IN  IF th.raised # None THEN th
                 ELSE IF el.raised # None THEN el
                 ELSE position_at_end(el, merge_block)

\* compile_while leaving the body as the statement leaves it, with no
\* branch back to the condition
compile_while_once(while_stmt, c) ==
    LET cb == append_basic_block(c, "while.cond")
        bb == append_basic_block(cb, "while.body")
        eb == append_basic_block(bb, "while.end")
        j == set_terminator(eb, "branch", <<cb.value>>)
    IN  IF cb.raised # None THEN cb
        ELSE IF j.raised # None THEN j
        ELSE LET k == Compile("compile_expression", while_stmt.condition,
                                         position_at_end(j, cb.value))
             IN  IF k.raised # None THEN k
                 ELSE LET cbr == set_terminator(k, "cbranch",
                                     <<k.value, bb.value, eb.value>>)
                          body == branch_unless_terminated(
                                      Compile("compile_statement", while_stmt.body,
                                          position_at_end(cbr, bb.value)),
                                      eb.value)
                      IN  IF cbr.raised # None THEN cbr
                          ELSE IF body.raised # None THEN body
                          ELSE position_at_end(body, eb.value)

\* LLVMCompiler.compile_while
compile_while(while_stmt, c) ==
    LET cb == append_basic_block(c, "while.cond")
        cond_block == cb.value
        bb == append_basic_block(cb, "while.body")
        body_block == bb.value
        eb == append_basic_block(bb, "while.end")
        end_block == eb.value
        j == set_terminator(eb, "branch", <<cond_block>>)
    IN  IF cb.raised # None THEN cb
        ELSE IF j.raised # None THEN j
        ELSE LET k == Compile("compile_expression", while_stmt.condition,
                                         position_at_end(j, cond_block))
             IN  IF k.raised # None THEN k
                 ELSE LET cbr == set_terminator(k, "cbranch",
                                     <<k.value, body_block, end_block>>)
                          body == branch_unless_terminated(
                                      Compile("compile_statement", while_stmt.body,
                                          position_at_end(cbr, body_block)),
                                      cond_block)
                      IN  IF cbr.raised # None THEN cbr
                          ELSE IF body.raised # None THEN body
                          ELSE position_at_end(body, end_block)

\* LLVMCompiler.compile_for: nothing is lowered.
compile_for(for_stmt, c) == c

\* LLVMCompiler.compile_statement: a node of any other class is passed over.
compile_statement(stmt, c) ==
    CASE stmt.node = "FunctionDeclaration" -> compile_function(stmt, c)
      [] stmt.node = "VarDeclaration" -> compile_var_declaration(stmt, c)
      [] stmt.node = "ExpressionStatement" ->
            Compile("compile_expression", stmt.expression, c)
      [] stmt.node = "ReturnStatement" -> compile_return(stmt, c)
      [] stmt.node = "IfStatement" -> compile_if(stmt, c)
      [] stmt.node = "WhileStatement" -> compile_while(stmt, c)
      [] stmt.node = "ForStatement" -> compile_for(stmt, c)
      [] stmt.node = "AssignmentStatement" -> compile_assignment(stmt, c)
      [] stmt.node = "Block" -> Compile("compile_block", stmt, c)
      [] OTHER -> c

\* The method named `method` of the compiler, called on a node.
Compile(method, node, c) ==
    CASE method = "compile_expression" -> compile_expression(node, c)
      [] method = "compile_statement" -> compile_statement(node, c)
      [] method = "compile_block" -> compile_block(node, c)

\* ------------------------- compile_program, run -------------------------

\* func f() -> int { return 1 <newline> auto x = 2 }
ReturnThenDeclare ==
    FunctionDeclaration("f", <<>>, "int",
        Block(<<ReturnStatement(NumberLiteral("1", "int")),
                VarDeclaration("x", "auto", NumberLiteral("2", "int"))>>), FALSE)

\* func f() -> int { if true { return 1 } else { return 2 } }
BothArmsReturn ==
    FunctionDeclaration("f", <<>>, "int",
        Block(<<IfStatement(BooleanLiteral("True"),
                    Block(<<ReturnStatement(NumberLiteral("1", "int"))>>),
                    Block(<<ReturnStatement(NumberLiteral("2", "int"))>>))>>), FALSE)

\* func h() -> int { return 1 <newline> return 2 }
ReturnTwice ==
    FunctionDeclaration("h", <<>>, "int",
        Block(<<ReturnStatement(NumberLiteral("1", "int")),
                ReturnStatement(NumberLiteral("2", "int"))>>), FALSE)

\* func f() { if true { auto x = 1 } }
DeclareInIfArm ==
    FunctionDeclaration("f", <<>>, "void",
        Block(<<IfStatement(BooleanLiteral("True"),
                    Block(<<VarDeclaration("x", "auto", NumberLiteral("1", "int"))>>),
                    NullNode)>>), FALSE)

\* func g() { auto x = 1 <newline> auto x = 2 }
DeclareTwice ==
    FunctionDeclaration("g", <<>>, "void",
        Block(<<VarDeclaration("x", "auto", NumberLiteral("1", "int")),
                VarDeclaration("x", "auto", NumberLiteral("2", "int"))>>), FALSE)

\* auto y = 5
DeclareY == VarDeclaration("y", "auto", NumberLiteral("5", "int"))

\* func r() -> int { return y }
ReadTopLevel ==
    FunctionDeclaration("r", <<>>, "int",
        Block(<<ReturnStatement(Identifier("y"))>>), FALSE)

\* func p() { print(true) <newline> print(2.5) }
PrintBoolFloat ==
    FunctionDeclaration("p", <<>>, "void",
        Block(<<ExpressionStatement(CallExpr(Identifier("print"),
                                             <<BooleanLiteral("True")>>)),
                ExpressionStatement(CallExpr(Identifier("print"),
                                             <<NumberLiteral("2.5", "float")>>))>>),
        FALSE)

\* func h() { print("hi") <newline> print(1) }
PrintStringInt ==
    FunctionDeclaration("h", <<>>, "void",
        Block(<<ExpressionStatement(CallExpr(Identifier("print"),
                                             <<StringLiteral("hi")>>)),
                ExpressionStatement(CallExpr(Identifier("print"),
                                             <<NumberLiteral("1", "int")>>))>>), FALSE)

\* func q() { print(1) <newline> print(2) }
PrintTwice ==
    FunctionDeclaration("q", <<>>, "void",
        Block(<<ExpressionStatement(CallExpr(Identifier("print"),
                                             <<NumberLiteral("1", "int")>>)),
                ExpressionStatement(CallExpr(Identifier("print"),
                                             <<NumberLiteral("2", "int")>>))>>), FALSE)

\* func s(a: float, b: bool, t: str) -> float { }
FloatSignature ==
    FunctionDeclaration("s", <<<<"a", "float">>, <<"b", "bool">>, <<"t", "str">>>>,
        "float", Block(<<>>), FALSE)

\* func w() { parallel { print(1) } }
ParallelPrint ==
    FunctionDeclaration("w", <<>>, "void",
        Block(<<ParallelBlock(<<CallExpr(Identifier("print"),
                                         <<NumberLiteral("1", "int")>>)>>)>>), FALSE)

\* func v() -> int { return await 1 }
ReturnAwait ==
    FunctionDeclaration("v", <<>>, "int",
        Block(<<ReturnStatement(AsyncAwait(NumberLiteral("1", "int")))>>), FALSE)

\* func f() -> int { auto x = 2 }
DeclareXInF ==
    FunctionDeclaration("f", <<>>, "int",
        Block(<<VarDeclaration("x", "auto", NumberLiteral("2", "int"))>>), FALSE)

\* func t() { print(x) }
PrintXInT ==
    FunctionDeclaration("t", <<>>, "void",
        Block(<<ExpressionStatement(CallExpr(Identifier("print"),
                                             <<Identifier("x")>>))>>), FALSE)

\* func sum() { 2.5 + 1.5 <newline> 1 + 2 }
FloatSumIntSum ==
    FunctionDeclaration("sum", <<>>, "void",
        Block(<<ExpressionStatement(BinaryOp(NumberLiteral("2.5", "float"), "+",
                                             NumberLiteral("1.5", "float"))),
                ExpressionStatement(BinaryOp(NumberLiteral("1", "int"), "+",
                                             NumberLiteral("2", "int")))>>), FALSE)

\* func rem() { 2.5 % 1.5 }
FloatRemainder ==
    FunctionDeclaration("rem", <<>>, "void",
        Block(<<ExpressionStatement(BinaryOp(NumberLiteral("2.5", "float"), "%",
                                             NumberLiteral("1.5", "float")))>>), FALSE)

\* func mix() { 1 + 2.5 }
MixedSum ==
    FunctionDeclaration("mix", <<>>, "void",
        Block(<<ExpressionStatement(BinaryOp(NumberLiteral("1", "int"), "+",
                                             NumberLiteral("2.5", "float")))>>), FALSE)

\* func g(n: int) -> int { while n < 3 { n = n + 1 } <newline> return n }
CountToThree ==
    FunctionDeclaration("g", <<<<"n", "int">>>>, "int",
        Block(<<WhileStatement(
                    BinaryOp(Identifier("n"), "<", NumberLiteral("3", "int")),
                    Block(<<AssignmentStatement(Identifier("n"),
                                BinaryOp(Identifier("n"), "+", NumberLiteral("1", "int")),
                                "=")>>)),
                ReturnStatement(Identifier("n"))>>), FALSE)

\* func lp(n: int) { while n < 3 { if n < 1 { n = 2 } } <newline>
\*                   while true { while false { } } }
NestedLoops ==
    FunctionDeclaration("lp", <<<<"n", "int">>>>, "void",
        Block(<<WhileStatement(
                    BinaryOp(Identifier("n"), "<", NumberLiteral("3", "int")),
                    Block(<<IfStatement(
                                BinaryOp(Identifier("n"), "<", NumberLiteral("1", "int")),
                                Block(<<AssignmentStatement(Identifier("n"),
                                            NumberLiteral("2", "int"), "=")>>),
                                NullNode)>>)),
                WhileStatement(BooleanLiteral("True"),
                    Block(<<WhileStatement(BooleanLiteral("False"),
                                           Block(<<>>))>>))>>), FALSE)

\* func pw() -> int { return 2 ** 3 }
PowerOfLiterals ==
    FunctionDeclaration("pw", <<>>, "int",
        Block(<<ReturnStatement(BinaryOp(NumberLiteral("2", "int"), "**",
                                         NumberLiteral("3", "int")))>>), FALSE)

\* func ca() { auto x = 1 <newline> x += 2 }
AddToX ==
    FunctionDeclaration("ca", <<>>, "void",
        Block(<<VarDeclaration("x", "auto", NumberLiteral("1", "int")),
                AssignmentStatement(Identifier("x"), NumberLiteral("2", "int"),
                                    "+=")>>), FALSE)

\* func cs() { auto x = 5 <newline> x -= 2 }
TakeFromX ==
    FunctionDeclaration("cs", <<>>, "void",
        Block(<<VarDeclaration("x", "auto", NumberLiteral("5", "int")),
                AssignmentStatement(Identifier("x"), NumberLiteral("2", "int"),
                                    "-=")>>), FALSE)

\* The top-level statements the programs to lower are made of.
LowerStatements ==
    {ReturnThenDeclare, BothArmsReturn, ReturnTwice, DeclareInIfArm, DeclareTwice,
     DeclareY, ReadTopLevel, PrintBoolFloat, PrintStringInt, PrintTwice,
     FloatSignature, ParallelPrint, ReturnAwait, DeclareXInF, PrintXInT,
     FloatSumIntSum, FloatRemainder, MixedSum, CountToThree, NestedLoops,
     PowerOfLiterals, AddToX, TakeFromX,
     \* func g() { }
     FunctionDeclaration("g", <<>>, "void", Block(<<>>), FALSE),
     \* func h() { bool b = true }
     FunctionDeclaration("h", <<>>, "void",
         Block(<<VarDeclaration("b", "bool", BooleanLiteral("True"))>>), FALSE),
     \* func f(a: int) -> int { if a < 0 { return 0 } <newline> return a + 1 }
     FunctionDeclaration("f", <<<<"a", "int">>>>, "int",
         Block(<<IfStatement(
                     BinaryOp(Identifier("a"), "<", NumberLiteral("0", "int")),
                     Block(<<ReturnStatement(NumberLiteral("0", "int"))>>), NullNode),
                 ReturnStatement(BinaryOp(Identifier("a"), "+",
                                          NumberLiteral("1", "int")))>>), FALSE),
     \* func g() -> int { while true { return 1 } }
     FunctionDeclaration("g", <<>>, "int",
         Block(<<WhileStatement(BooleanLiteral("True"),
                     Block(<<ReturnStatement(NumberLiteral("1", "int"))>>))>>), FALSE),
     \* func k() -> int { return f() }
     FunctionDeclaration("k", <<>>, "int",
         Block(<<ReturnStatement(CallExpr(Identifier("f"), <<>>))>>), FALSE),
     \* print(1)
     ExpressionStatement(CallExpr(Identifier("print"), <<NumberLiteral("1", "int")>>)),
     \* 7
     ExpressionStatement(NumberLiteral("7", "int"))}

\* LLVMCompiler() about to run compile_program(program): the loop is at
\* top-level statement number `next`.
NewLowerer(program) ==
    [status |-> "lowering", program |-> program, next |-> 1, c |-> NewCompiler]

\* The programs handed to the lowerer are those check_program accepts.
LowerInit ==
    /\ LexIdle
    /\ ParserIdle
    /\ assign = NoCall
    /\ checker = NoChecker
    /\ \E statements \in SeqsUpTo(LowerStatements, MaxStatements) :
           /\ check_program(Program(statements))
           /\ lowerer = NewLowerer(Program(statements))
    /\ cli = NoCli

\* One iteration of the loop of compile_program: Compile("compile_statement", stmt),
\* which returns
CompileStatement ==
    /\ lowerer.status = "lowering"
    /\ lowerer.next <= Len(lowerer.program.statements)
    /\ LET stmt == lowerer.program.statements[lowerer.next]
           c == Compile("compile_statement", stmt, lowerer.c)
       IN  /\ c.raised = None
           /\ lowerer' = [lowerer EXCEPT !.c = c, !.next = @ + 1]
    /\ UNCHANGED <<lexVars, parser, assign, checker, cli>>

\* One iteration of the loop of compile_program: Compile("compile_statement", stmt),
\* which raises; the exception leaves compile_program.
CompileStatementRaises ==
    /\ lowerer.status = "lowering"
    /\ lowerer.next <= Len(lowerer.program.statements)
    /\ LET stmt == lowerer.program.statements[lowerer.next]
           c == Compile("compile_statement", stmt, lowerer.c)
       IN  /\ c.raised # None
           /\ lowerer' = [lowerer EXCEPT !.c = c, !.status = "raised"]
    /\ UNCHANGED <<lexVars, parser, assign, checker, cli>>

\* The loop is over: return str(self.module)
CompileProgramReturn ==
    /\ lowerer.status = "lowering"
    /\ lowerer.next > Len(lowerer.program.statements)
    /\ lowerer' = [lowerer EXCEPT !.status = "lowered"]
    /\ UNCHANGED <<lexVars, parser, assign, checker, cli>>

LowerNext == CompileStatement \/ CompileStatementRaises \/ CompileProgramReturn

SpecLower == LowerInit /\ [][LowerNext]_vars

\* ---- compile_program run twice on the same tree ----

\* Where in the module the instruction with identity `id` stands: function,
\* block, place in the block.  llvmlite prints an instruction under a name
\* made from the order in which the function's values were created.
PositionOf(module, id) ==
    CHOOSE at \in {<<f, b, i>> : f \in DOMAIN module.functions, b \in 1..8, i \in 1..24} :
        /\ at[2] \in DOMAIN module.functions[at[1]].blocks
        /\ at[3] \in DOMAIN module.functions[at[1]].blocks[at[2]].instructions
        /\ module.functions[at[1]].blocks[at[2]].instructions[at[3]].id = id

\* An operand as str() prints it: an instruction by its place, a global
\* variable by its name (the prefix and the id() it was named with), a
\* constant, an argument, a block or a function by type and name.
operand_text(module, v) ==
    CASE v.kind = "instruction" -> [ref |-> "%", at |-> PositionOf(module, v.id)]
      [] v.kind = "global" -> [ref |-> "@", name |-> <<v.text, v.id>>]
      [] OTHER -> [ref |-> v.kind, type |-> v.type, text |-> v.text, at |-> v.id]

\* str(self.module): the globals and the functions in the order they were
\* added, every instruction with its operands.
module_text(module) ==
    [globals |->
         [g \in DOMAIN module.globals |->
              [name |-> <<module.globals[g].prefix, module.globals[g].id>>,
               linkage |-> module.globals[g].linkage,
               global_constant |-> module.globals[g].global_constant,
               initializer |-> module.globals[g].initializer]],
     functions |->
         [f \in DOMAIN module.functions |->
              [name |-> module.functions[f].name,
               return_type |-> module.functions[f].return_type,
               args |-> module.functions[f].args,
               blocks |->
                   [b \in DOMAIN module.functions[f].blocks |->
                        LET block == module.functions[f].blocks[b] IN
                        [name |-> block.name,
                         instructions |->
                             [i \in DOMAIN block.instructions |->
                                  LET instr == block.instructions[i] IN
                                  [opname |-> instr.opname, type |-> instr.type,
                                   operands |->
                                       [k \in DOMAIN instr.operands |->
                                            operand_text(module, instr.operands[k])]]]]]]]]

\* Two runs of LLVMCompiler().compile_program(program) on one tree: `run`
\* is the run under way, `first` the text the first run returned.
RelowerInit ==
    /\ LexIdle
    /\ ParserIdle
    /\ assign = NoCall
    /\ checker = NoChecker
    /\ \E statements \in SeqsUpTo(LowerStatements, MaxStatements) :
           /\ check_program(Program(statements))
           /\ lowerer = [status |-> "lowering", program |-> Program(statements),
                         next |-> 1, c |-> NewCompiler, run |-> 1, first |-> None]
    /\ cli = NoCli

\* A second LLVMCompiler() lowers the same tree.  id() of a CPython object
\* is its address: the objects of the second run are found either at the
\* addresses of the first run again, or at others (the first module is
\* still alive, or the heap of the second process lies elsewhere).
CompileProgramAgain ==
    /\ lowerer.status = "lowered"
    /\ lowerer.run = 1
    /\ \E address \in {1, lowerer.c.objects} :
           lowerer' = [lowerer EXCEPT !.status = "lowering", !.next = 1, !.run = 2,
                                      !.first = module_text(lowerer.c.module),
                                      !.c = [NewCompiler EXCEPT !.objects = address]]
    /\ UNCHANGED <<lexVars, parser, assign, checker, cli>>

RelowerNext ==
    CompileStatement \/ CompileStatementRaises \/ CompileProgramReturn
        \/ CompileProgramAgain

SpecRelower == RelowerInit /\ [][RelowerNext]_vars

(***************************************************************************)
(*                            COMMAND LINE                                 *)
(* VelaCLI.run_file and VelaCLI.compile_file (src/cli/vela_main.py): the   *)
(* source goes through Lexer, Parser, TypeChecker and LLVMCompiler, then   *)
(* to the executor (run) or the native compiler (compile).                 *)
(***************************************************************************)
\* bool b = 5
SourceBoolB5 ==
    <<"b", "o", "o", "l", " ", "b", " ", "=", " ", "5">>

\* func f() -> int { <newline> return 1 # one <newline> }
SourceFunction ==
    <<"f", "u", "n", "c", " ", "f", "(", ")", " ", "-", ">", " ", "i", "n",
      "t", " ", "{", NL, " ", "r", "e", "t", "u", "r", "n", " ", "1", " ",
      "#", " ", "o", "n", "e", NL, "}">>

\* print('hi')
SourcePrint ==
    <<"p", "r", "i", "n", "t", "(", SQ, "h", "i", SQ, ")">>

\* auto a = @
SourceUnknownChar ==
    <<"a", "u", "t", "o", " ", "a", " ", "=", " ", "@">>

\* 1 +
SourceDanglingPlus ==
    <<"1", " ", "+">>

\* u
SourceUndefined ==
    <<"u">>

\* a quote and a backslash
SourceEscapeAtEnd ==
    <<SQ, BS>>

\* auto x = 2.5
SourceDeclaration ==
    <<"a", "u", "t", "o", " ", "x", " ", "=", " ", "2", ".", "5">>

\* while 1 { }
SourceWhile ==
    <<"w", "h", "i", "l", "e", " ", "1", " ", "{", " ", "}">>

\* The source texts the commands are run on.
RunSources ==
    {SourceBoolB5, SourceFunction, SourcePrint,
     SourceUnknownChar, SourceDanglingPlus, SourceUndefined, SourceEscapeAtEnd,
     SourceDeclaration, SourceWhile}

\* run_file(filepath) or compile_file(filepath) has read the file and
\* constructed Lexer(source).
RunInit ==
    /\ source \in RunSources
    /\ lex = [pos |-> 0, line |-> 1, column |-> 1]
    /\ tokens = <<>>
    /\ lexStatus = "running"
    /\ lexError = NoError
    /\ parser = NoParser
    /\ assign = NoCall
    /\ checker = NoChecker
    /\ lowerer = NoLowerer
    /\ \E command \in {"run", "compile"} :
           cli = [status |-> "running", command |-> command, code |-> None]

\* parser = Parser(tokens); ast = parser.parse(), once tokenize has returned
RunParse ==
    /\ cli.status = "running"
    /\ lexStatus = "returned"
    /\ parser = NoParser
    /\ parser' = Finished(parse(tokens))
    /\ UNCHANGED <<lexVars, assign, checker, lowerer, cli>>

\* type_checker = TypeChecker(); type_checker.check_program(ast) is called,
\* once parse has returned
RunCheckProgram ==
    /\ cli.status = "running"
    /\ parser.status = "returned"
    /\ checker = NoChecker
    /\ checker' = NewChecker(parser.tree)
    /\ UNCHANGED <<lexVars, parser, assign, lowerer, cli>>

\* if not type_checker.check_program(ast): the errors are printed; return 1
RunReturnTypeErrors ==
    /\ cli.status = "running"
    /\ checker.status = "returned"
    /\ ~checker.result
    /\ cli' = [cli EXCEPT !.status = "returned", !.code = 1]
    /\ UNCHANGED <<lexVars, parser, assign, checker, lowerer>>

\* The same step without the test of what check_program returned.
RunCompileProgram_despite_errors ==
    /\ cli.status = "running"
    /\ checker.status = "returned"
    /\ lowerer = NoLowerer
    /\ lowerer' = NewLowerer(checker.program)
    /\ UNCHANGED <<lexVars, parser, assign, checker, cli>>

\* compiler = LLVMCompiler(); compiler.compile_program(ast) is called, once
\* check_program has returned true
RunCompileProgram ==
    /\ cli.status = "running"
    /\ checker.status = "returned"
    /\ checker.result
    /\ lowerer = NoLowerer
    /\ lowerer' = NewLowerer(checker.program)
    /\ UNCHANGED <<lexVars, parser, assign, checker, cli>>

\* except Exception: the exception tokenize, parse or compile_program
\* raised is printed; return 1
RunReturnException ==
    /\ cli.status = "running"
    /\ \/ lexStatus = "raised"
       \/ parser.status = "raised"
       \/ lowerer.status = "raised"
    /\ cli' = [cli EXCEPT !.status = "returned", !.code = 1]
    /\ UNCHANGED <<lexVars, parser, assign, checker, lowerer>>

\* The module goes to VelaExecutor (run) or to VelaAOTCompiler (compile):
\* return 0, or return 1 when the backend raises.
RunBackend ==
    /\ cli.status = "running"
    /\ lowerer.status = "lowered"
    /\ \E code \in {0, 1} :
           cli' = [cli EXCEPT !.status = "returned", !.code = code]
    /\ UNCHANGED <<lexVars, parser, assign, checker, lowerer>>

RunNext ==
    \/ LexNext
    \/ RunParse
    \/ RunCheckProgram
    \/ CheckNext
    \/ RunReturnTypeErrors
    \/ RunCompileProgram
    \/ LowerNext
    \/ RunReturnException
    \/ RunBackend

SpecRun == RunInit /\ [][RunNext]_vars

(***************************************************************************)
(*                     PROPERTIES OF THE LEXER (SpecLex)                   *)
(***************************************************************************)
\* C1: tokenize either returns a token list whose last token is EOF and that
\* holds EOF nowhere else, or raises the lexer's own SyntaxError; no other
\* exception kind and no other list is an outcome.
TokenizeReturnsEofOrSyntaxError ==
    /\ lexStatus = "returned" =>
          /\ tokens # <<>>
          /\ tokens[Len(tokens)].type = "EOF"
          /\ \A i \in 1..(Len(tokens) - 1) : tokens[i].type # "EOF"
    /\ lexStatus = "raised" => lexError.kind = "SyntaxError"

\* The source is a string literal whose opening quote is never closed: no
\* later character is that quote (and none is a backslash, so that the text
\* holds no escape).
UnterminatedString ==
    /\ source # <<>>
    /\ source[1] \in {DQ, SQ}
    /\ \A i \in 2..Len(source) : source[i] \notin {source[1], BS}

\* C2: when the opening quote of a string literal is never matched before
\* the end of the input, tokenize fails with the lexer's error and returns
\* no token list.
UnterminatedStringRaises ==
    (UnterminatedString /\ lexStatus # "running") =>
        (lexStatus = "raised" /\ lexError.kind = "SyntaxError")

\* C22: for every keyword of the keyword table and every one- or
\* two-character operator or delimiter the lexer emits, tokenize on that
\* spelling alone returns exactly two tokens: one of the same type, then
\* EOF.  While the loop runs the list holds nothing else.
SpellingLexesToItsToken ==
    source \in Spellings =>
        /\ lexStatus # "raised"
        /\ Len(tokens) <= 2
        /\ tokens # <<>> => tokens[1].type = KindOf(source)
        /\ Len(tokens) = 2 => (tokens[2].type = "EOF" /\ lexStatus = "returned")
        /\ lexStatus = "returned" => Len(tokens) = 2

\* `->`, whose first character is a token of its own, was lexed as ARROW,
\* and the table of spellings is the keyword table and the operators.
ArrowLexed ==
    /\ source = <<"-", ">">>
    /\ lexStatus = "returned"
    /\ tokens[1] = Token("ARROW", "->", "str", 1, 1)
    /\ tokens[2].type = "EOF"
    /\ {Join(chars) : chars \in KeywordSpellings} = DOMAIN keywords
    /\ Cardinality(DOMAIN OperatorTokens) = 30

(***************************************************************************)
(*                    PROPERTIES OF THE PARSER (SpecParse)                 *)
(***************************************************************************)
\* The nodes the fields of node n hold (None included, as NullNode).
Children(n) ==
    CASE n.node = "BinaryOp" -> <<n.left, n.right>>
      [] n.node = "UnaryOp" -> <<n.operand>>
      [] n.node = "CallExpr" -> <<n.callee>> \o n.arguments
      [] n.node = "ArrayLiteral" -> n.elements
      [] n.node = "IndexExpr" -> <<n.array, n.index>>
      [] n.node = "MemberAccess" -> <<n.object>>
      [] n.node = "LambdaExpr" -> <<n.body>>
      [] n.node = "PipelineExpr" -> <<n.value>> \o n.functions
      [] n.node = "MatchExpr" ->
            <<n.value>> \o [i \in 1..(2 * Len(n.cases)) |->
                               n.cases[(i + 1) \div 2][2 - (i % 2)]]
      [] n.node = "ObjectLiteral" -> [i \in DOMAIN n.fields |-> n.fields[i][2]]
      [] n.node = "AsyncAwait" -> <<n.expression>>
      [] n.node = "VarDeclaration" -> <<n.initializer>>
      [] n.node = "FunctionDeclaration" -> <<n.body>>
      [] n.node = "ClassDeclaration" -> n.methods \o n.fields
      [] n.node = "TraitDeclaration" -> n.methods
      [] n.node \in {"Block", "Program"} -> n.statements
      [] n.node = "ExpressionStatement" -> <<n.expression>>
      [] n.node = "ReturnStatement" -> <<n.value>>
      [] n.node = "IfStatement" -> <<n.condition, n.then_branch, n.else_branch>>
      [] n.node = "WhileStatement" -> <<n.condition, n.body>>
      [] n.node = "ForStatement" -> <<n.iterable, n.body>>
      [] n.node = "AssignmentStatement" -> <<n.target, n.value>>
      [] n.node = "ParallelBlock" -> n.tasks
      [] OTHER -> <<>>

\* Every BinaryOp under n has two operands, every UnaryOp one, every
\* CallExpr a callee.
RECURSIVE WellFormed(_)
WellFormed(n) ==
    /\ n.node = "BinaryOp" => (n.left # NullNode /\ n.right # NullNode)
    /\ n.node = "UnaryOp" => n.operand # NullNode
    /\ n.node = "CallExpr" => n.callee # NullNode
    /\ \A i \in DOMAIN Children(n) : WellFormed(Children(n)[i])

\* The tokens up to and including the one the cursor is at, closed by EOF.
UpToCursor ==
    IF parser.pos + 1 >= Len(tokens) THEN tokens
    ELSE Append(SubSeq(tokens, 1, parser.pos + 1), TkEOF)

\* C3: parse returns a Program or raises one SyntaxError at the first
\* mismatching token (the cursor is at a token of the list, and the tokens
\* after it play no part in the error); in a returned tree every BinaryOp
\* has two operands, every UnaryOp one and every CallExpr a callee.
ParseReturnsProgramOrRaises ==
    /\ parser.status \in {"constructed", "returned", "raised"}
    /\ parser.status = "returned" =>
          /\ parser.tree.node = "Program"
          /\ WellFormed(parser.tree)
    /\ parser.status = "raised" =>
          /\ parser.tree = NullNode
          /\ parser.pos \in 0..(Len(tokens) - 1)
          /\ Finished(parse(UpToCursor)) = parser

\* `a + 1` has been parsed into an expression statement holding a BinaryOp.
ParsedOperators ==
    /\ parser.status = "returned"
    /\ tokens = <<Tk("IDENTIFIER", "a"), Tk("PLUS", "+"), TkNumber("1"), TkEOF>>
    /\ parser.tree = Program(<<ExpressionStatement(
           BinaryOp(Identifier("a"), "+", NumberLiteral("1", "int")))>>)

\* C5: the function whose statements are separated by `;` is accepted, and
\* its body is the Block of the declaration, the assignment and the return
\* in source order.
SemicolonBodyAccepted ==
    (tokens = ScenarioSemicolons /\ parser.status # "constructed") =>
        (parser.status = "returned" /\ parser.tree = FunctionFTree)

\* The same function with newlines between its statements is parsed into
\* that tree.
NewlineBodyAccepted ==
    (tokens = ScenarioNewlines /\ parser.status # "constructed") =>
        (parser.status = "returned" /\ parser.tree = FunctionFTree)

(***************************************************************************)
(*              PROPERTIES OF parse_primary (SpecPrimary)                  *)
(***************************************************************************)

\* C17: parse_primary on an identifier immediately followed by `{` returns
\* an ObjectLiteral carrying the identifier as class name and the
\* `field = value` pairs in source order (or raises on a malformed body);
\* on an identifier not followed by `{` it returns the Identifier node.
PrimaryReadsObjectLiteral ==
    (parser.status # "constructed" /\ tokens[1].type = "IDENTIFIER") =>
        IF tokens[2].type = "LBRACE"
        THEN parser.status = "returned" =>
                 /\ parser.tree.node = "ObjectLiteral"
                 /\ parser.tree.class_name = tokens[1].value
                 /\ tokens = ObjectLiteralTokens =>
                        parser.tree.fields =
                            <<<<"x", NumberLiteral("1", "int")>>,
                              <<"y", Identifier("a")>>>>
        ELSE parser = Finished(Ok(Identifier(tokens[1].value), 1))

(***************************************************************************)
(*        PROPERTIES OF THE STATEMENT AND BODY LOOPS (SpecProgress)        *)
(***************************************************************************)

\* C30: the parser makes progress.  Every call of parse_statement and
\* every iteration of the loops of parse, parse_block,
\* parse_parallel_block, parse_class_declaration, parse_trait_declaration
\* and parse_match_expression either raises or leaves the cursor at least
\* one token further; the cursor never moves back and never passes the
\* EOF token, the last of the list.
ParserMakesProgress ==
    [][/\ parser'.pos >= parser.pos
       /\ parser'.pos <= Len(tokens) - 1
       /\ parser'.status # "raised" => parser'.pos > parser.pos]_vars

\* The member loop of parse_class_declaration has gone from the first
\* member of class C { auto x <newline> func m() { } <newline> }, over the
\* field and the method, to the closing brace.
ClassBodyWalked ==
    /\ tokens = ClassTokens
    /\ parser.loop = "parse_class_declaration"
    /\ parser.start = 3
    /\ parser.status = "running"
    /\ parser.pos = 13
    /\ ~loop_condition(parser.loop, tokens, parser.pos)

(***************************************************************************)
(*               PROPERTIES OF OPERATOR CHAINS (SpecExpr)                  *)
(***************************************************************************)
\* The precedence table: the level of a binary operator, lowest first.
\* Prefix operators bind tighter than all of them.
PrecedenceLevel(op) ==
    CASE op = "or" -> 1
      [] op = "and" -> 2
      [] op \in {"==", "!="} -> 3
      [] op \in {"<", ">", "<=", ">="} -> 4
      [] op \in {"+", "-"} -> 5
      [] op \in {"*", "/", "%"} -> 6
      [] op = "**" -> 7

\* The operands of a chain read from token i on, a prefixed operand being
\* one operand, and the binary operators between them.
RECURSIVE ChainOperands(_, _)
ChainOperands(toks, i) ==
    LET prefixed == toks[i].type \in {"NOT", "MINUS"}
        operand == IF prefixed
                   THEN UnaryOp(toks[i].value, Identifier(toks[i + 1].value))
                   ELSE Identifier(toks[i].value)
        j == IF prefixed THEN i + 2 ELSE i + 1
    IN  IF toks[j].type = "EOF" THEN <<operand>>
        ELSE <<operand>> \o ChainOperands(toks, j + 1)

RECURSIVE ChainOperators(_, _)
ChainOperators(toks, i) ==
    LET j == IF toks[i].type \in {"NOT", "MINUS"} THEN i + 2 ELSE i + 1 IN
    IF toks[j].type = "EOF" THEN <<>>
    ELSE <<toks[j].value>> \o ChainOperators(toks, j + 1)

\* The tree the table gives operands lo..hi, operator k standing between
\* operands k and k + 1: the chain splits at its operator of the lowest
\* level, the last of them when the level groups left-to-right, the first
\* when it groups right-to-left (`**`).
RECURSIVE PrecedenceTree(_, _, _, _)
PrecedenceTree(operands, operators, lo, hi) ==
    IF lo = hi THEN operands[lo]
    ELSE LET lowest == CHOOSE m \in 1..7 :
                          /\ \E k \in lo..(hi - 1) : PrecedenceLevel(operators[k]) = m
                          /\ \A k \in lo..(hi - 1) : PrecedenceLevel(operators[k]) >= m
             at == {k \in lo..(hi - 1) : PrecedenceLevel(operators[k]) = lowest}
             split == IF lowest = 7
                      THEN CHOOSE k \in at : \A o \in at : k <= o
                      ELSE CHOOSE k \in at : \A o \in at : k >= o
         IN  BinaryOp(PrecedenceTree(operands, operators, lo, split),
                      operators[split],
                      PrecedenceTree(operands, operators, split + 1, hi))

\* C4: parse_expression reads the whole chain and builds the tree of the
\* precedence table: higher levels bind tighter, operators of one level
\* group left-to-right, `**` groups right-to-left.
ExpressionFollowsPrecedence ==
    parser.status # "constructed" =>
        /\ parser.status = "returned"
        /\ parser.pos = Len(tokens) - 1
        /\ parser.tree = PrecedenceTree(ChainOperands(tokens, 1),
                                        ChainOperators(tokens, 1), 1,
                                        Len(ChainOperands(tokens, 1)))

\* `a ** b ** -c` has been parsed into a ** (b ** (-c)).
PowerGroupsRight ==
    /\ parser.status = "returned"
    /\ Len(tokens) = 7
    /\ parser.tree = BinaryOp(Identifier("a"), "**",
                        BinaryOp(Identifier("b"), "**",
                                 UnaryOp("-", Identifier("c"))))

(***************************************************************************)
(*                 PROPERTIES OF can_assign (SpecAssign)                   *)
(***************************************************************************)
\* Two types have the same structure: the same kind, and the same element
\* structure for arrays, the same parameter and return structure for
\* functions, the same name for every other kind.
RECURSIVE StructurallyEqual(_, _)
StructurallyEqual(a, b) ==
    /\ a.kind = b.kind
    /\ CASE a.kind = "None" -> TRUE
         [] a.kind = "ARRAY" -> StructurallyEqual(a.element_type, b.element_type)
         [] a.kind = "FUNCTION" ->
                /\ DOMAIN a.param_types = DOMAIN b.param_types
                /\ \A i \in DOMAIN a.param_types :
                       StructurallyEqual(a.param_types[i], b.param_types[i])
                /\ StructurallyEqual(a.return_type, b.return_type)
         [] OTHER -> a.name = b.name

\* C6: can_assign(target, source) is true exactly when target is auto, or
\* the two are structurally equal, or source is null and target is a
\* class, str or array, or target is float and source int; so it is false
\* for int from float and for a non-auto target from auto.
CanAssignExactlyFourCases ==
    assign.status = "returned" =>
        /\ assign.result <=>
              \/ assign.target.kind = "AUTO"
              \/ StructurallyEqual(assign.target, assign.source)
              \/ /\ assign.source.kind = "NULL"
                 /\ assign.target.kind \in {"CLASS", "STRING", "ARRAY"}
              \/ assign.target.kind = "FLOAT" /\ assign.source.kind = "INT"
        /\ (assign.target = INT_TYPE /\ assign.source = FLOAT_TYPE) => ~assign.result
        /\ (assign.target.kind # "AUTO" /\ assign.source = AUTO_TYPE) => ~assign.result

\* can_assign has answered for float from int (true).
WideningAssignable ==
    /\ assign.status = "returned"
    /\ assign.target = FLOAT_TYPE
    /\ assign.source = INT_TYPE
    /\ assign.result

(***************************************************************************)
(*                PROPERTIES OF check_program (SpecCheck)                  *)
(***************************************************************************)
IsPrefix(a, b) == Len(a) <= Len(b) /\ SubSeq(b, 1, Len(a)) = a

\* The top-level statements, among the first k, that are a type error
\* wherever they stand: `bool b = 5` and the use of the undeclared `u`.
IllTypedAmong(statements, k) ==
    {i \in 1..k : statements[i] \in {BoolB5, UseOfU}}

\* C7: during the traversal the error list only grows, by appending; every
\* top-level statement is visited, also after errors were recorded (each
\* ill-typed one met so far has left an error); and check_program returns
\* true exactly when the list is empty at the end.
CheckProgramAccumulatesErrors ==
    /\ [][checker.status # "none" =>
             IsPrefix(checker.tc.errors, checker'.tc.errors)]_vars
    /\ [](checker.status # "none" =>
            /\ checker.next \in 1..(Len(checker.program.statements) + 1)
            /\ Len(checker.tc.errors) >=
                   Cardinality(IllTypedAmong(checker.program.statements,
                                             checker.next - 1))
            /\ checker.status = "returned" =>
                  /\ checker.next = Len(checker.program.statements) + 1
                  /\ checker.result <=> (checker.tc.errors = <<>>))

\* `bool b = 5` then `u`: both errors are on the list, in that order, and
\* check_program has returned false.
TwoErrorsRecorded ==
    /\ checker.status = "returned"
    /\ checker.program.statements = <<BoolB5, UseOfU>>
    /\ checker.tc.errors = <<"No se puede asignar int a bool",
                             "Variable indefinida: u">>
    /\ ~checker.result

\* node is n or lies under n.
RECURSIVE Contains(_, _)
Contains(n, node) ==
    \/ n = node
    \/ \E i \in DOMAIN Children(n) : Contains(Children(n)[i], node)

\* stmt is an if or a while with an ill-typed statement in the block of
\* its then-branch, its else-branch or its body.
IllTypedInBranch(stmt) ==
    /\ stmt.node \in {"IfStatement", "WhileStatement"}
    /\ \E i \in DOMAIN Children(stmt) :
           /\ Children(stmt)[i].node = "Block"
           /\ \/ Contains(Children(stmt)[i], BoolB5)
              \/ Contains(Children(stmt)[i], UseOfU)

\* C8: a type error nested in the block of an if, an else or a while is
\* recorded by the traversal: check_program returns false.
NestedErrorsAreRecorded ==
    (/\ checker.status = "returned"
     /\ \E i \in DOMAIN checker.program.statements :
            IllTypedInBranch(checker.program.statements[i]))
    => ~checker.result

\* The programmer declared the variable `expression` names with auto and
\* no initializer.
DeclaredAuto(program, expression) ==
    /\ expression.node = "Identifier"
    /\ Contains(program, VarDeclaration(expression.name, "auto", NullNode))

\* An expression of a kind infer_type has no rule for, `foo` being a
\* function no program declares.
Untypable(expression) ==
    \/ expression.node \in {"IndexExpr", "MemberAccess", "PipelineExpr",
                            "MatchExpr", "ObjectLiteral", "AsyncAwait"}
    \/ expression = CallExpr(Identifier("foo"), <<>>)

\* C9: when check_program reports no error, every expression it typed has
\* a type other than auto unless the programmer declared auto, and the
\* program holds no expression statement of an untypable kind.
CleanCheckTypesEveryExpression ==
    (checker.status = "returned" /\ checker.result) =>
        /\ \A i \in DOMAIN checker.tc.typed :
               \/ checker.tc.typed[i][2].kind # "AUTO"
               \/ DeclaredAuto(checker.program, checker.tc.typed[i][1])
        /\ \A i \in DOMAIN checker.program.statements :
               checker.program.statements[i].node = "ExpressionStatement" =>
                   ~Untypable(checker.program.statements[i].expression)

\* C18: for a call of a registered function whose parameter types are not
\* auto, a number of arguments other than the number of parameters, or an
\* argument whose type is not assignable to its parameter's, is recorded
\* as an error; and the type of the call is the function's return type.
CallMismatchesAreErrors ==
    checker.status = "returned" =>
        /\ (/\ Len(checker.program.statements) = 2
            /\ checker.program.statements[1] = DeclareF
            /\ checker.program.statements[2] \in {CallFNoArgument, CallFString})
           => ~checker.result
        /\ \A i \in DOMAIN checker.tc.typed :
               LET expr == checker.tc.typed[i][1] IN
               (/\ expr.node = "CallExpr"
                /\ expr.callee = Identifier("f")
                /\ checker.program.statements[1] = DeclareF)
               => checker.tc.typed[i][2] = INT_TYPE

\* The message check_statement records for a condition of type `type`.
ConditionMessage(keyword, type) ==
    "La condición del " \o keyword \o " debe ser bool, no " \o Type__str__(type)

\* C23: checking an if or a while whose condition's inferred type is not
\* bool appends a type error that names the inferred type, and a condition
\* of type bool appends none for the condition; in both cases the checker
\* goes on to the branches or the body: the errors after the statement are
\* those of inferring the condition, then the condition's message when its
\* type is not bool, then what check_statement records on the then branch
\* and on the else branch, or on the body.
ConditionMustBeBool ==
    [][(/\ checker.status = "checking"
        /\ checker.next <= Len(checker.program.statements)
        /\ checker.program.statements[checker.next].node
               \in {"IfStatement", "WhileStatement"}
        /\ checker'.next = checker.next + 1) =>
       LET stmt == checker.program.statements[checker.next]
           is_if == stmt.node = "IfStatement"
           cond == infer_type(stmt.condition, checker.tc)
           message == ConditionMessage(IF is_if THEN "if" ELSE "while", cond.type)
           branches == IF ~is_if THEN <<stmt.body>>
                       ELSE IF stmt.else_branch = NullNode THEN <<stmt.then_branch>>
                       ELSE <<stmt.then_branch, stmt.else_branch>>
           at_branches == [cond.tc EXCEPT !.errors =
                               IF cond.type.kind = "BOOL" THEN @
                               ELSE Append(@, message)]
       IN  /\ IsPrefix(cond.tc.errors, checker'.tc.errors)
           /\ cond.type.kind # "BOOL" =>
                  /\ Len(checker'.tc.errors) > Len(cond.tc.errors)
                  /\ checker'.tc.errors[Len(cond.tc.errors) + 1] = message
           /\ cond.type.kind = "BOOL" =>
                  \A i \in (Len(cond.tc.errors) + 1)..Len(checker'.tc.errors) :
                      checker'.tc.errors[i] # message
           /\ checker'.tc = check_block_loop(branches, 1, at_branches)]_vars

\* auto x = 1, then `if u { } else if x { bool b = 5 }`: the undefined u,
\* its type auto named as the condition's, and, from the else branch, the
\* int named as the second condition's type.
ElseIfConditionReported ==
    /\ checker.status = "checking"
    /\ checker.next = 3
    /\ checker.program.statements[2] =
           IfStatement(Identifier("u"), Block(<<>>),
               IfStatement(Identifier("x"), Block(<<BoolB5>>), NullNode))
    /\ checker.tc.errors = <<"Variable indefinida: u",
                             "La condición del if debe ser bool, no auto",
                             "La condición del if debe ser bool, no int">>

\* The variables of every scope of an environment, with their types.
VariablesOf(env) == [scope \in DOMAIN env |-> env[scope].variables]

\* C25: after check_function(f) returns, the current environment is the
\* one that was current before the call: the same chain of scopes, every
\* scope with the variables it had, so that f's parameters and the
\* variables declared in f's body do not resolve from it unless they did
\* before; f resolves as a function there, and it was registered before
\* its body was checked: a call of f inside the body has f's return type.
CheckFunctionRestoresEnvironment ==
    [][(/\ checker.status = "checking"
        /\ checker.next <= Len(checker.program.statements)
        /\ checker.program.statements[checker.next].node = "FunctionDeclaration"
        /\ checker'.next = checker.next + 1) =>
       LET func == checker.program.statements[checker.next]
           before == checker.tc.env
           after == checker'.tc.env
           func_type == FunctionType(func.name, ParameterTypes(func.parameters),
                                     parse_type_string(func.return_type))
           typed == checker'.tc.typed
       IN  /\ Len(after) = Len(before)
           /\ VariablesOf(after) = VariablesOf(before)
           /\ \A i \in DOMAIN func.parameters :
                  get_variable(after, Len(after), func.parameters[i][1])
                      = get_variable(before, Len(before), func.parameters[i][1])
           /\ get_function(after, Len(after), func.name) = func_type
           /\ \A scope \in DOMAIN after :
                  after[scope].functions =
                      IF scope = Len(after)
                      THEN DictSet(before[scope].functions, func.name, func_type)
                      ELSE before[scope].functions
           /\ \A k \in (Len(checker.tc.typed) + 1)..Len(typed) :
                  (/\ typed[k][1].node = "CallExpr"
                   /\ typed[k][1].callee = Identifier(func.name))
                      => typed[k][2] = func_type.return_type]_vars

\* func f(n: int) -> int { return n * f(n) } was checked: n does not
\* resolve any more, f does, and the call of f in its body got type int.
RecursiveFunctionChecked ==
    /\ checker.status = "checking"
    /\ checker.next = 2
    /\ checker.program.statements[1] = DeclareF
    /\ checker.tc.errors = <<>>
    /\ Len(checker.tc.env) = 1
    /\ get_variable(checker.tc.env, 1, "n") = NoType
    /\ get_function(checker.tc.env, 1, "f") = FunctionType("f", <<INT_TYPE>>, INT_TYPE)
    /\ \E k \in DOMAIN checker.tc.typed :
           checker.tc.typed[k] = <<CallExpr(Identifier("f"), <<Identifier("n")>>),
                                   INT_TYPE>>

(***************************************************************************)
(*          PROPERTIES OF A SECOND check_program (SpecRecheck)             *)
(***************************************************************************)

\* C19: type inference is idempotent: a second traversal of the same
\* program, started in the environment the first one left, gives every
\* expression the type the first traversal gave it and leaves every
\* declared variable with the same type.
InferenceIsIdempotent ==
    (checker.status = "returned" /\ checker.pass = 2) =>
        /\ checker.tc.typed = checker.first.typed
        /\ VariablesOf(checker.tc.env) = VariablesOf(checker.first.env)

(***************************************************************************)
(*               PROPERTIES OF compile_program (SpecLower)                 *)
(***************************************************************************)

\* The instructions that end a basic block: return, branch, conditional
\* branch.
Terminators == {"ret", "ret_void", "branch", "cbranch"}

\* The block ends with a terminator and holds no other one: nothing comes
\* after its terminator.
EndsWithOneTerminator(block) ==
    LET n == Len(block.instructions) IN
    /\ n > 0
    /\ block.instructions[n].opname \in Terminators
    /\ \A i \in 1..(n - 1) : block.instructions[i].opname \notin Terminators

\* The basic blocks of the functions of a module.
BlocksOf(module) ==
    UNION {{module.functions[f].blocks[b] : b \in DOMAIN module.functions[f].blocks} :
               f \in DOMAIN module.functions}

\* C10: lowering a program that check_program accepts completes, no
\* exception leaves compile_program, and in the module it returns every basic
\* block of every function ends with exactly one terminator and has no
\* instruction after it.
LoweringEndsEveryBlockWithOneTerminator ==
    /\ lowerer.status # "raised"
    /\ lowerer.status = "lowered" =>
           \A block \in BlocksOf(lowerer.c.module) : EndsWithOneTerminator(block)

\* The positions of the stack-slot allocations in a block.
AllocasOf(block) ==
    {i \in DOMAIN block.instructions : block.instructions[i].opname = "alloca"}

\* C11: in every function of a lowered module, each named local has exactly
\* one stack-slot allocation and that allocation is an instruction of the
\* entry block: no block after the entry block holds an alloca, and no two
\* allocas of the function carry the same name.
EveryLocalHasOneSlotInEntryBlock ==
    lowerer.status = "lowered" =>
        \A f \in DOMAIN lowerer.c.module.functions :
            LET blocks == lowerer.c.module.functions[f].blocks IN
            IF blocks = <<>> THEN TRUE
            ELSE /\ \A b \in DOMAIN blocks : b > 1 => AllocasOf(blocks[b]) = {}
                 /\ \A i, j \in AllocasOf(blocks[1]) :
                        blocks[1].instructions[i].name = blocks[1].instructions[j].name
                            => i = j

\* The names of the functions, print aside, that are called under n.
RECURSIVE Callees(_)
Callees(n) ==
    (IF n.node = "CallExpr" /\ n.callee.node = "Identifier" /\ n.callee.name # "print"
     THEN {n.callee.name} ELSE {})
    \cup UNION {Callees(Children(n)[i]) : i \in DOMAIN Children(n)}

\* C12: lowering a program that check_program accepts never fails on an
\* unresolved variable name: when the program calls no function of its own,
\* no NameError leaves compile_program.
LoweringResolvesEveryName ==
    (lowerer.status = "raised" /\ Callees(lowerer.program) = {})
        => lowerer.c.raised # "NameError"

\* The instructions of a module.
InstructionsOf(module) ==
    UNION {{block.instructions[i] : i \in DOMAIN block.instructions} :
               block \in BlocksOf(module)}

\* The instruction that made the value ptr.
InstructionAt(module, ptr) ==
    CHOOSE instr \in InstructionsOf(module) : instr.id = ptr.id

\* The global variable of the module that ptr, made by a bitcast, points to.
GlobalOf(module, ptr) ==
    LET g == InstructionAt(module, ptr).operands[1] IN
    module.globals[CHOOSE i \in DOMAIN module.globals :
                       /\ module.globals[i].prefix = g.text
                       /\ module.globals[i].id = g.id]

\* arg is a pointer to the bytes of a global made for a string literal.
PointsToString(module, arg) ==
    /\ arg.kind = "instruction"
    /\ arg.type = i8_ptr
    /\ InstructionAt(module, arg).opname = "bitcast"
    /\ GlobalOf(module, arg).prefix = "str_"

\* The values of the string literals under n.
RECURSIVE StringLiterals(_)
StringLiterals(n) ==
    (IF n.node = "StringLiteral" THEN {n.value} ELSE {})
    \cup UNION {StringLiterals(Children(n)[i]) : i \in DOMAIN Children(n)}

\* The calls of printf in a module.
PrintfCalls(module) ==
    {instr \in InstructionsOf(module) :
         instr.opname = "call" /\ instr.operands[1].text = "printf"}

\* C14: every call of printf made for print(e) takes its format from the
\* argument: "%s\n" and the literal's own bytes for a string literal,
\* "%ld\n" for an int or a bool, "%f\n" for a float, "%p\n" otherwise.
PrintChoosesFormatFromArgument ==
    lowerer.status = "lowered" =>
        \A instr \in PrintfCalls(lowerer.c.module) :
            LET module == lowerer.c.module
                fmt == GlobalOf(module, instr.operands[2]).initializer
                arg == instr.operands[3]
            IN  IF PointsToString(module, arg)
                THEN /\ fmt = "%s" \o NL \o NUL
                     /\ \E literal \in StringLiterals(lowerer.program) :
                            GlobalOf(module, arg).initializer = literal \o NUL
                ELSE IF arg.type \in {i64, i1} THEN fmt = "%ld" \o NL \o NUL
                ELSE IF arg.type = f64 THEN fmt = "%f" \o NL \o NUL
                ELSE fmt = "%p" \o NL \o NUL

\* C15: a lowered module holds at most one format global per format
\* content: no two format globals have equal content.
FormatGlobalsAreDistinct ==
    lowerer.status = "lowered" =>
        \A i, j \in DOMAIN lowerer.c.module.globals :
            LET g == lowerer.c.module.globals IN
            (/\ g[i].prefix = "fmt_"
             /\ g[j].prefix = "fmt_"
             /\ g[i].initializer = g[j].initializer) => i = j

\* The lowering conventions for the types a signature names.
LoweredType(type_str) ==
    CASE type_str = "int" -> i64
      [] type_str = "float" -> f64
      [] type_str = "bool" -> i1
      [] type_str = "str" -> i8_ptr
      [] type_str = "void" -> void

\* C16: each function declaration of a lowered program has a function in
\* the module whose parameter types and return type are the images of the
\* declared ones under the lowering conventions.
SignatureIsLowered ==
    lowerer.status = "lowered" =>
        \A s \in DOMAIN lowerer.program.statements :
            LET func == lowerer.program.statements[s] IN
            func.node = "FunctionDeclaration" =>
                \E f \in DOMAIN lowerer.c.module.functions :
                    LET llvm_func == lowerer.c.module.functions[f] IN
                    /\ llvm_func.name = func.name
                    /\ llvm_func.return_type = LoweredType(func.return_type)
                    /\ llvm_func.args = [i \in DOMAIN func.parameters |->
                                             LoweredType(func.parameters[i][2])]

\* The tree n with every parallel block replaced by the block of its tasks
\* as expression statements, and every await by the expression awaited.
RECURSIVE Unwrapped(_)
Unwrapped(n) ==
    CASE n.node = "AsyncAwait" -> Unwrapped(n.expression)
      [] n.node = "ParallelBlock" ->
            Block([i \in DOMAIN n.tasks |-> ExpressionStatement(Unwrapped(n.tasks[i]))])
      [] n.node = "FunctionDeclaration" -> [n EXCEPT !.body = Unwrapped(@)]
      [] n.node \in {"Block", "Program"} ->
            [n EXCEPT !.statements = [i \in DOMAIN n.statements |->
                                          Unwrapped(n.statements[i])]]
      [] n.node = "ExpressionStatement" -> [n EXCEPT !.expression = Unwrapped(@)]
      [] n.node = "ReturnStatement" -> [n EXCEPT !.value = Unwrapped(@)]
      [] n.node = "VarDeclaration" -> [n EXCEPT !.initializer = Unwrapped(@)]
      [] n.node = "AssignmentStatement" -> [n EXCEPT !.value = Unwrapped(@)]
      [] n.node = "IfStatement" ->
            [n EXCEPT !.condition = Unwrapped(@), !.then_branch = Unwrapped(@),
                      !.else_branch = Unwrapped(@)]
      [] n.node = "WhileStatement" ->
            [n EXCEPT !.condition = Unwrapped(@), !.body = Unwrapped(@)]
      [] n.node = "BinaryOp" -> [n EXCEPT !.left = Unwrapped(@), !.right = Unwrapped(@)]
      [] n.node = "UnaryOp" -> [n EXCEPT !.operand = Unwrapped(@)]
      [] n.node = "CallExpr" ->
            [n EXCEPT !.arguments = [i \in DOMAIN n.arguments |->
                                         Unwrapped(n.arguments[i])]]
      [] OTHER -> n

\* C20: a parallel block lowers as its tasks written as expression
\* statements do, and await e lowers as e does: the module of a lowered
\* program is the module of the program with the parallel blocks and the
\* awaits unwrapped.
ParallelAndAwaitAreTransparent ==
    lowerer.status = "lowered" =>
        lowerer.c.module =
            compile_block_loop(Unwrapped(lowerer.program).statements, 1,
                               NewCompiler).module

\* The identities of the stack slots a function allocates.
SlotsOf(function) ==
    UNION {{function.blocks[b].instructions[i].id :
                i \in AllocasOf(function.blocks[b])} : b \in DOMAIN function.blocks}

\* C24: a function's symbol table holds only that function's own
\* parameters and locals: no name bound while lowering a function resolves
\* while lowering a later one, so every load and every store of a function
\* of the lowered module addresses a stack slot allocated in that function.
EveryAccessAddressesOwnSlot ==
    lowerer.status = "lowered" =>
        \A f \in DOMAIN lowerer.c.module.functions :
            LET function == lowerer.c.module.functions[f] IN
            \A b \in DOMAIN function.blocks :
                \A i \in DOMAIN function.blocks[b].instructions :
                    LET instr == function.blocks[b].instructions[i] IN
                    instr.opname \in {"load", "store"} =>
                        instr.operands[Len(instr.operands)].id \in SlotsOf(function)

\* The binary arithmetic expressions over two number literals under n.
RECURSIVE ArithmeticOnLiterals(_)
ArithmeticOnLiterals(n) ==
    (IF /\ n.node = "BinaryOp"
        /\ n.operator \in {"+", "-", "*", "/", "%"}
        /\ n.left.node = "NumberLiteral"
        /\ n.right.node = "NumberLiteral"
     THEN {n} ELSE {})
    \cup UNION {ArithmeticOnLiterals(Children(n)[i]) : i \in DOMAIN Children(n)}

\* The instruction of an arithmetic operator on floats and on ints.
FloatVariant(operator) ==
    CASE operator = "+" -> "fadd" [] operator = "-" -> "fsub"
      [] operator = "*" -> "fmul" [] operator = "/" -> "fdiv"
      [] operator = "%" -> "frem"
IntVariant(operator) ==
    CASE operator = "+" -> "add" [] operator = "-" -> "sub"
      [] operator = "*" -> "mul" [] operator = "/" -> "sdiv"
      [] operator = "%" -> "srem"

IntArithmetic == {"add", "sub", "mul", "sdiv", "srem"}
FloatArithmetic == {"fadd", "fsub", "fmul", "fdiv", "frem"}

\* C26: for a binary arithmetic expression the lowerer emits the variant
\* that matches the type the checker infers: a float instruction over two
\* double operands whenever either operand is float, an integer
\* instruction only when both are int.  Lowering does not fail on operands
\* of different types, and no arithmetic instruction of the module has
\* operands of two types or of a type that is not its own.
ArithmeticVariantMatchesInferredType ==
    /\ lowerer.status = "raised" => lowerer.c.raised # "ValueError"
    /\ lowerer.status = "lowered" =>
           /\ \A n \in ArithmeticOnLiterals(lowerer.program) :
                  LET type == infer_type(n, NewTypeChecker).type
                      opname == IF type = FLOAT_TYPE THEN FloatVariant(n.operator)
                                ELSE IntVariant(n.operator)
                      operand(literal) ==
                          Constant(get_llvm_type(type), literal.value)
                  IN  \E instr \in InstructionsOf(lowerer.c.module) :
                          /\ instr.opname = opname
                          /\ instr.type = get_llvm_type(type)
                          /\ instr.operands = <<operand(n.left), operand(n.right)>>
           /\ \A instr \in InstructionsOf(lowerer.c.module) :
                  /\ instr.opname \in IntArithmetic =>
                         \A k \in DOMAIN instr.operands : instr.operands[k].type = i64
                  /\ instr.opname \in FloatArithmetic =>
                         \A k \in DOMAIN instr.operands : instr.operands[k].type = f64

\* The while statements lowered for the statement n: those of its blocks,
\* of the arms of its ifs and of the bodies of its whiles.
RECURSIVE WhilesLowered(_)
RECURSIVE WhilesLoweredIn(_, _)
WhilesLoweredIn(statements, i) ==
    IF i > Len(statements) THEN 0
    ELSE WhilesLowered(statements[i]) + WhilesLoweredIn(statements, i + 1)

WhilesLowered(n) ==
    CASE n.node = "FunctionDeclaration" -> WhilesLowered(n.body)
      [] n.node = "Block" -> WhilesLoweredIn(n.statements, 1)
      [] n.node = "IfStatement" ->
            WhilesLowered(n.then_branch) + WhilesLowered(n.else_branch)
      [] n.node = "WhileStatement" -> 1 + WhilesLowered(n.body)
      [] OTHER -> 0

\* The last instruction of a block.
Last(block) == block.instructions[Len(block.instructions)]

\* The block number k of a function, as an operand.
BlockValue(blocks, k) == Value("label", "block", blocks[k].name, k)

\* The blocks whose last instruction is the unconditional branch to block k.
BranchesTo(blocks, k) ==
    {j \in DOMAIN blocks :
         /\ blocks[j].instructions # <<>>
         /\ Last(blocks[j]).opname = "branch"
         /\ Last(blocks[j]).operands = <<BlockValue(blocks, k)>>}

RECURSIVE PowersOfLiterals(_)
PowersOfLiterals(n) ==
    (IF /\ n.node = "BinaryOp"
        /\ n.operator = "**"
        /\ n.left.node = "NumberLiteral"
        /\ n.right.node = "NumberLiteral"
     THEN {n} ELSE {})
    \cup UNION {PowersOfLiterals(Children(n)[i]) : i \in DOMAIN Children(n)}

\* C28: a ** b is never lowered to a plain multiplication of the two
\* operands: lowering it either emits a power computation or fails with an
\* explicit error that the operator is not implemented.  In a lowered
\* module no multiplication has the two operands of a ** of the program
\* as its operands.
PowerIsNeverAMultiplication ==
    lowerer.status = "lowered" =>
        \A n \in PowersOfLiterals(lowerer.program) :
            LET type == get_llvm_type(infer_type(n, NewTypeChecker).type) IN
            ~ \E instr \in InstructionsOf(lowerer.c.module) :
                  /\ instr.opname \in {"mul", "fmul"}
                  /\ instr.operands = <<Constant(type, n.left.value),
                                        Constant(type, n.right.value)>>

\* The compound assignments of a number literal to a variable under n.
RECURSIVE CompoundAssignments(_)
CompoundAssignments(n) ==
    (IF /\ n.node = "AssignmentStatement"
        /\ n.operator \in {"+=", "-="}
        /\ n.target.node = "Identifier"
        /\ n.value.node = "NumberLiteral"
     THEN {n} ELSE {})
    \cup UNION {CompoundAssignments(Children(n)[i]) : i \in DOMAIN Children(n)}

\* C29: a compound assignment stores the combined value: x += e stores
\* the sum of the current value of x and e, x -= e their difference.  In a
\* lowered module, for every compound assignment of a literal there are a
\* load of a variable, the sum or difference of the loaded value and the
\* literal, and a store of that result to the variable loaded.
CompoundAssignmentStoresCombinedValue ==
    lowerer.status = "lowered" =>
        \A n \in CompoundAssignments(lowerer.program) :
            LET instrs == InstructionsOf(lowerer.c.module)
                type == get_llvm_type(infer_type(n.value, NewTypeChecker).type)
                opnames == IF n.operator = "+="
                           THEN {IntVariant("+"), FloatVariant("+")}
                           ELSE {IntVariant("-"), FloatVariant("-")}
            IN  \E loaded \in instrs, combined \in instrs, stored \in instrs :
                    /\ loaded.opname = "load"
                    /\ combined.opname \in opnames
                    /\ combined.operands[1].id = loaded.id
                    /\ combined.operands[2] = Constant(type, n.value.value)
                    /\ stored.opname = "store"
                    /\ stored.operands[1].id = combined.id
                    /\ stored.operands[2] = loaded.operands[1]

(***************************************************************************)
(*          PROPERTIES OF A SECOND compile_program (SpecRelower)           *)
(***************************************************************************)

\* C21: lowering is deterministic: two independent runs of the lowerer on
\* the same tree return the same module text, the global constants
\* carrying the same names in the same order in both runs.
TwoRunsReturnTheSameText ==
    (lowerer.run = 2 /\ lowerer.status = "lowered") =>
        module_text(lowerer.c.module) = lowerer.first

(***************************************************************************)
(*             PROPERTIES OF run_file AND compile_file (SpecRun)           *)
(***************************************************************************)

\* C13: in run and compile the phases run in the order lexer, parser, type
\* checker, lowerer, each starting only after the previous one completed:
\* a Parser exists only once tokenize has returned, a TypeChecker only once
\* parse has returned, an LLVMCompiler only once check_program has returned
\* true.  When the type checker reports an error no LLVMCompiler is ever
\* constructed and the command returns 1.
PhasesRunInOrder ==
    /\ parser # NoParser => lexStatus = "returned"
    /\ checker # NoChecker => parser.status = "returned"
    /\ lowerer # NoLowerer => (checker.status = "returned" /\ checker.result)
    /\ (checker.status = "returned" /\ ~checker.result) =>
           /\ lowerer = NoLowerer
           /\ cli.status = "returned" => cli.code = 1

\* `bool b = 5` went through the lexer and the parser, the type checker
\* reported its error, and the command returned 1 with no LLVMCompiler.
TypeErrorStopsBeforeLowering ==
    /\ source = SourceBoolB5
    /\ checker.status = "returned"
    /\ Len(checker.tc.errors) = 1
    /\ cli.status = "returned"
    /\ cli.code = 1
    /\ lowerer = NoLowerer

====
